---- MODULE Spec2Model ----
(***************************************************************************)
(* Model of the note-graph engine of papyr-core: buildNoteGraph and the    *)
(* graph queries of src/src/graph.ts.  A JavaScript Map is modelled as a   *)
(* function together with the sequence of its keys in insertion order, a   *)
(* JavaScript Set whose iteration order is observable as a sequence        *)
(* without repetitions, in insertion order.                                *)
(***************************************************************************)
EXTENDS Integers, Sequences, FiniteSets, TLC

VARIABLES notes, options, graph, raised, pc, call, ret

vars == <<notes, options, graph, raised, pc, call, ret>>

----------------------------------------------------------------------------
(* Bounds of the model *)

\* longest note list handed to buildNoteGraph
MaxNotes == 3
\* most links of a note list, all its notes together
MaxLinks == 2
\* most links of a note list that is built and then queried
MaxQueryLinks == 3
\* largest minimumConnections option
MaxMinConn == 2

\* getNeighborhood is asked for 0..MaxDepth hops
MaxDepth == 2

\* the note lists made of groups of three notes have up to MaxBlocks groups
MaxBlocks == 6

\* the note lists laid out as a star have up to MaxStar notes
MaxStar == 11

\* the leaderboards are asked for 0..MaxLimit nodes, or the default
MaxLimit == 4

\* longest list of notes that carry word counts, reading times and tags
MaxWebNotes == 2

\* hubs and authorities are asked for thresholds 0..MaxThreshold, or the
\* default
MaxThreshold == 3

\* the slugs notes and links are drawn from, in the order lists introduce
\* them; a link whose slug no note of the list carries is a dangling link
SlugOrder == <<"a", "b", "c">>

Slugs == {SlugOrder[k] : k \in DOMAIN SlugOrder}

----------------------------------------------------------------------------
(* Helpers for sequences, Sets and Maps *)

Range(s) == {s[i] : i \in DOMAIN s}

SeqsUpTo(S, n) == UNION {[1..k -> S] : k \in 0..n}

\* Set.prototype.add on an insertion-ordered Set
SetAdd(s, x) == IF x \in Range(s) THEN s ELSE Append(s, x)

\* Set.prototype.add for each of the values xs in turn: the values the Set
\* does not hold yet are appended, each once, in the order of their first
\* occurrence
SetAddAll(s, xs) ==
  LET fresh == {i \in 1..Len(xs) :
                  /\ xs[i] \notin Range(s)
                  /\ \A j \in 1..(i - 1) : xs[j] # xs[i]}
      at(k) == CHOOSE i \in fresh : Cardinality({j \in fresh : j <= i}) = k
  IN  s \o [k \in 1..Cardinality(fresh) |-> xs[at(k)]]

\* Array.prototype.filter
FilterSeq(s, keep) ==
  LET Kept(x) == x \in keep
  IN  SelectSeq(s, Kept)

\* the elements of the sequences of ss, one sequence after the other
\* (push(...items) and nested forEach loops)
Flatten(ss) ==
  LET P == UNION {{<<i, j>> : j \in DOMAIN ss[i]} : i \in DOMAIN ss}
      upTo(p) == {q \in P : q[1] < p[1] \/ (q[1] = p[1] /\ q[2] <= p[2])}
      at(k) == CHOOSE p \in P : Cardinality(upTo(p)) = k
  IN  [k \in 1..Cardinality(P) |-> ss[at(k)[1]][at(k)[2]]]

\* reduce((sum, x) => sum + x, 0)
RECURSIVE SumSeq(_)
SumSeq(s) == IF s = <<>> THEN 0 ELSE Head(s) + SumSeq(Tail(s))

----------------------------------------------------------------------------
(* Inputs *)

LinkLists(k) == SeqsUpTo(Slugs, k)

RECURSIVE TotalLinks(_)
TotalLinks(ns) ==
  IF ns = <<>> THEN 0 ELSE Len(Head(ns).linksTo) + TotalLinks(Tail(ns))

\* Slugs are opaque: the code only compares them for equality.  A list is
\* taken up to renaming of its slugs, its notes introducing the slugs in
\* the order of SlugOrder (links stay free to name any slug): the next
\* note carries the first unused slug or, unless the slugs of the list are
\* to be distinct, a slug already used.
Used(ns, j) == \E n \in DOMAIN ns : ns[n].slug = SlugOrder[j]

SlugsFor(ns, distinct) ==
  {SlugOrder[i] : i \in {j \in DOMAIN SlugOrder :
                          /\ j = 1 \/ Used(ns, j - 1)
                          /\ distinct => ~Used(ns, j)}}

\* the lists of S, each with one more note, at most k links together
Extended(S, k, distinct) ==
  UNION {{Append(ns, [slug |-> s, linksTo |-> l]) :
            s \in SlugsFor(ns, distinct), l \in LinkLists(k - TotalLinks(ns))} :
         ns \in S}

\* the lists of n notes that carry at most k links together
RECURSIVE ListsOf(_, _, _)
ListsOf(n, k, distinct) ==
  IF n = 0 THEN {<<>>} ELSE Extended(ListsOf(n - 1, k, distinct), k, distinct)

NoteListsWith(k, distinct) == UNION {ListsOf(n, k, distinct) : n \in 0..MaxNotes}

NoteLists == NoteListsWith(MaxLinks, FALSE)

UniqueSlugs(ns) == \A i, j \in DOMAIN ns : ns[i].slug = ns[j].slug => i = j

GraphOptions ==
  [includeOrphans : BOOLEAN, bidirectional : BOOLEAN,
   minimumConnections : 0..MaxMinConn]

DefaultOptions ==
  [includeOrphans |-> TRUE, bidirectional |-> FALSE, minimumConnections |-> 0]

EmptyGraph ==
  [order |-> <<>>, nodes |-> <<>>, edges |-> <<>>, backlinks |-> <<>>,
   orphans |-> {}]

NoCall == [op |-> "none"]

----------------------------------------------------------------------------
(* buildNoteGraph, pass by pass *)

\* noteMap: the keys of the lookup map
NoteMapKeys(ns) == {ns[i].slug : i \in DOMAIN ns}

\* Map key order: a key keeps the position of its first set()
KeyOrder(ns) == SetAddAll(<<>>, [i \in 1..Len(ns) |-> ns[i].slug])

\* the note a Map.set() loop leaves under a slug: the last one carrying it
LastNoteOf(ns, s) ==
  ns[CHOOSE i \in DOMAIN ns :
       /\ ns[i].slug = s
       /\ \A j \in DOMAIN ns : ns[j].slug = s => j <= i]

\* first pass: one node per slug, forwardLinkCount the raw list length
\* (id is the key; label and metadata are passed through and read by none
\* of the operations below)
FirstPass(ns) ==
  [s \in NoteMapKeys(ns) |->
     [linkCount |-> 0, backlinkCount |-> 0,
      forwardLinkCount |-> Len(LastNoteOf(ns, s).linksTo)]]

InitialBacklinks(ns) == [s \in NoteMapKeys(ns) |-> <<>>]

Edge(s, t) == [source |-> s, target |-> t]

\* a variant that files the entry under the wrong end of the edge
AddBacklink_swapped(acc, t, s) ==
  IF s \in DOMAIN acc.backlinks
  THEN [acc EXCEPT !.backlinks[s] = SetAdd(@, t)]
  ELSE [acc EXCEPT !.raised = TRUE]

\* backlinks.get(t)!.add(s): a missing key is a TypeError
AddBacklink(acc, t, s) ==
  IF t \in DOMAIN acc.backlinks
  THEN [acc EXCEPT !.backlinks[t] = SetAdd(@, s)]
  ELSE [acc EXCEPT !.raised = TRUE]

\* a variant that also reverses self-links
ReverseWanted_selfToo(bidirectional, s, t) == bidirectional

\* a variant that never adds the reverse edge
ReverseWanted_never(bidirectional, s, t) == FALSE

ReverseWanted(bidirectional, s, t) == bidirectional /\ s # t

\* the body of the inner forEach of the second pass
LinkStep(acc, keys, bidirectional, s, t) ==
  IF t \notin keys THEN acc
  ELSE LET fwd == AddBacklink([acc EXCEPT !.edges = Append(@, Edge(s, t))], t, s)
       IN  IF ReverseWanted(bidirectional, s, t)
           THEN AddBacklink([fwd EXCEPT !.edges = Append(@, Edge(t, s))], s, t)
           ELSE fwd

\* (a TypeError ends the loops of the second pass)
RECURSIVE LinksLoop(_, _, _, _, _)
LinksLoop(acc, keys, bidirectional, s, links) ==
  IF acc.raised \/ links = <<>> THEN acc
  ELSE LinksLoop(LinkStep(acc, keys, bidirectional, s, Head(links)),
                 keys, bidirectional, s, Tail(links))

RECURSIVE NotesLoop(_, _, _, _)
NotesLoop(acc, keys, bidirectional, ns) ==
  IF acc.raised \/ ns = <<>> THEN acc
  ELSE NotesLoop(LinksLoop(acc, keys, bidirectional, Head(ns).slug, Head(ns).linksTo),
                 keys, bidirectional, Tail(ns))

\* second pass: edges and backlinks
SecondPass(ns, bidirectional) ==
  NotesLoop([edges |-> <<>>, backlinks |-> InitialBacklinks(ns), raised |-> FALSE],
            NoteMapKeys(ns), bidirectional, ns)

\* third pass: counts before any removal
ThirdPassCounts(nodes, backlinks) ==
  [s \in DOMAIN nodes |->
     LET bc == IF s \in DOMAIN backlinks THEN Len(backlinks[s]) ELSE 0
     IN  [nodes[s] EXCEPT !.backlinkCount = bc,
                          !.linkCount = nodes[s].forwardLinkCount + bc]]

OrphansOf(nodes) == {s \in DOMAIN nodes : nodes[s].linkCount = 0}

\* a variant with an off-by-one threshold
NodesToRemove_inclusive(nodes, minimumConnections) ==
  {s \in DOMAIN nodes : nodes[s].linkCount <= minimumConnections}

NodesToRemove(nodes, minimumConnections) ==
  {s \in DOMAIN nodes : nodes[s].linkCount < minimumConnections}

\* the keys left after nodesToRemove and, unless included, the orphans are deleted
SurvivingKeys(nodes, opts) ==
  (DOMAIN nodes \ NodesToRemove(nodes, opts.minimumConnections))
     \ (IF opts.includeOrphans THEN {} ELSE OrphansOf(nodes))

\* a variant that checks one endpoint only
EdgeSurvives_sourceOnly(keys, e) == e.source \in keys

EdgeSurvives(keys, e) == e.source \in keys /\ e.target \in keys

\* a variant that returns the unfiltered edges
FilteredEdges_none(edges, keys) == edges

FilteredEdges(edges, keys) ==
  LET Survives(e) == EdgeSurvives(keys, e)
  IN  SelectSeq(edges, Survives)

\* backlinks.clear() and the rebuild from the filtered edges
RECURSIVE RebuildLoop(_, _)
RebuildLoop(acc, edges) ==
  IF acc.raised \/ edges = <<>> THEN acc
  ELSE RebuildLoop(AddBacklink(acc, Head(edges).target, Head(edges).source),
                   Tail(edges))

RebuildBacklinks(keys, edges) ==
  RebuildLoop([backlinks |-> [s \in keys |-> <<>>], raised |-> FALSE], edges)

\* one step of the recount over the filtered edges
CountEdge(nodes, e) ==
  LET n1 == IF e.source \in DOMAIN nodes
            THEN [nodes EXCEPT ![e.source].forwardLinkCount = @ + 1]
            ELSE nodes
  IN  IF e.target \in DOMAIN n1
      THEN [n1 EXCEPT ![e.target].backlinkCount = @ + 1]
      ELSE n1

\* (without a node no edge counts)
RECURSIVE CountLoop(_, _)
CountLoop(nodes, edges) ==
  IF edges = <<>> \/ DOMAIN nodes = {} THEN nodes
  ELSE CountLoop(CountEdge(nodes, Head(edges)), Tail(edges))

\* a variant that forgets the inbound count
SumCounts_forwardOnly(n) == n.forwardLinkCount

SumCounts(n) == n.forwardLinkCount + n.backlinkCount

RecomputeMetrics(keys, edges) ==
  LET zero == [s \in keys |->
                 [linkCount |-> 0, backlinkCount |-> 0, forwardLinkCount |-> 0]]
      cnt  == CountLoop(zero, edges)
  IN  [s \in keys |-> [cnt[s] EXCEPT !.linkCount = SumCounts(cnt[s])]]

\* a variant that keeps the orphans of the third pass
RefreshOrphans_stale(stale, final) == stale

\* orphans.clear() and the refresh from the final counts
RefreshOrphans(stale, final) == OrphansOf(final)

\* the whole function: the returned graph and whether a TypeError was thrown
buildNoteGraph(ns, opts) ==
  LET second == SecondPass(ns, opts.bidirectional)
      third  == ThirdPassCounts(FirstPass(ns), second.backlinks)
      keys   == SurvivingKeys(third, opts)
      fe     == FilteredEdges(second.edges, keys)
      rebuilt == RebuildBacklinks(keys, fe)
      final  == RecomputeMetrics(keys, fe)
  IN  [graph |-> [order |-> FilterSeq(KeyOrder(ns), keys),
                  nodes |-> final,
                  edges |-> fe,
                  backlinks |-> rebuilt.backlinks,
                  orphans |-> RefreshOrphans(OrphansOf(third), final)],
       raised |-> second.raised \/ rebuilt.raised]

----------------------------------------------------------------------------
(* findShortestPath *)

Null == [isNull |-> TRUE, path |-> <<>>]

Found(p) == [isNull |-> FALSE, path |-> p]

\* Map.get(k) || new Set()
GetOrEmpty(m, k) == IF k \in DOMAIN m THEN m[k] ELSE <<>>

\* a variant that records every edge in both directions
AdjacencyStep_undirected(adj, e) ==
  LET a1 == IF e.source \in DOMAIN adj THEN adj ELSE adj @@ (e.source :> <<>>)
      a2 == [a1 EXCEPT ![e.source] = SetAdd(@, e.target)]
      a3 == IF e.target \in DOMAIN a2 THEN a2 ELSE a2 @@ (e.target :> <<>>)
  IN  [a3 EXCEPT ![e.target] = SetAdd(@, e.source)]

\* the body of the forEach that builds the adjacency list
AdjacencyStep(adj, e) ==
  LET a1 == IF e.source \in DOMAIN adj THEN adj ELSE adj @@ (e.source :> <<>>)
  IN  [a1 EXCEPT ![e.source] = SetAdd(@, e.target)]

RECURSIVE Adjacency(_, _)
Adjacency(adj, edges) ==
  IF edges = <<>> THEN adj
  ELSE Adjacency(AdjacencyStep(adj, Head(edges)), Tail(edges))

\* the reconstruction loop: unshift until parent.get() is undefined
RECURSIVE ReconstructPath(_, _)
ReconstructPath(parent, node) ==
  IF node \in DOMAIN parent
  THEN Append(ReconstructPath(parent, parent[node]), node)
  ELSE <<node>>

\* a variant that re-parents a neighbour still waiting in the queue
VisitNeighbor_reparent(st, current, neighbor) ==
  IF neighbor \in st.visited
  THEN IF neighbor \in Range(st.queue)
       THEN [st EXCEPT !.parent[neighbor] = current]
       ELSE st
  ELSE [queue   |-> Append(st.queue, neighbor),
        visited |-> st.visited \cup {neighbor},
        parent  |-> IF neighbor \in DOMAIN st.parent
                    THEN [st.parent EXCEPT ![neighbor] = current]
                    ELSE st.parent @@ (neighbor :> current)]

\* the body of the for-of loop over the neighbours of current
VisitNeighbor(st, current, neighbor) ==
  IF neighbor \in st.visited THEN st
  ELSE [queue   |-> Append(st.queue, neighbor),
        visited |-> st.visited \cup {neighbor},
        parent  |-> IF neighbor \in DOMAIN st.parent
                    THEN [st.parent EXCEPT ![neighbor] = current]
                    ELSE st.parent @@ (neighbor :> current)]

RECURSIVE VisitLoop(_, _, _)
VisitLoop(st, current, neighbors) ==
  IF neighbors = <<>> THEN st
  ELSE VisitLoop(VisitNeighbor(st, current, Head(neighbors)), current, Tail(neighbors))

\* the while loop over the queue
RECURSIVE Bfs(_, _, _)
Bfs(st, adj, target) ==
  IF st.queue = <<>> THEN Null
  ELSE LET current == Head(st.queue)
           shifted == [st EXCEPT !.queue = Tail(@)]
       IN  IF current = target
           THEN Found(ReconstructPath(st.parent, target))
           ELSE Bfs(VisitLoop(shifted, current, GetOrEmpty(adj, current)), adj, target)

\* a variant that answers the self-path before it looks the slugs up
findShortestPath_selfFirst(sourceSlug, targetSlug, g) ==
  IF sourceSlug = targetSlug THEN Found(<<sourceSlug>>)
  ELSE IF sourceSlug \notin DOMAIN g.nodes \/ targetSlug \notin DOMAIN g.nodes
  THEN Null
  ELSE Bfs([queue |-> <<sourceSlug>>, visited |-> {sourceSlug}, parent |-> <<>>],
           Adjacency(<<>>, g.edges), targetSlug)

findShortestPath(sourceSlug, targetSlug, g) ==
  IF sourceSlug \notin DOMAIN g.nodes \/ targetSlug \notin DOMAIN g.nodes
  THEN Null
  ELSE IF sourceSlug = targetSlug THEN Found(<<sourceSlug>>)
  ELSE Bfs([queue |-> <<sourceSlug>>, visited |-> {sourceSlug}, parent |-> <<>>],
           Adjacency(<<>>, g.edges), targetSlug)

\* getBacklinks: the backlink set of the slug as an array, in the order
\* the set was filled; [] for a slug without an entry
getBacklinks(slug, g) ==
  IF slug \in DOMAIN g.backlinks THEN g.backlinks[slug] ELSE <<>>

\* a variant of the forward half: the targets of every edge
ForwardOf_all(slug, edges) ==
  [i \in DOMAIN edges |-> edges[i].target]

\* the targets of the edges that leave the slug, in edge order
ForwardOf(slug, edges) ==
  LET out == SelectSeq(edges, LAMBDA e : e.source = slug)
  IN  [i \in DOMAIN out |-> out[i].target]

getConnections(slug, g) ==
  IF slug \notin DOMAIN g.nodes
  THEN [forward |-> <<>>, backward |-> <<>>]
  ELSE [forward |-> ForwardOf(slug, g.edges),
        backward |-> getBacklinks(slug, g)]

----------------------------------------------------------------------------
(* Numbers and arrays of the analysis functions *)

\* n / d for integers n >= 0 and d > 0 (the code divides only behind a
\* guard that makes the denominator positive).  The result is the double
\* nearest to the exact quotient; it is named by n and d, which for the
\* small integers of a note graph name different doubles whenever the
\* exact quotients differ, in the same order.
Quotient(n, d) == [num |-> n, den |-> d]

\* the fraction bits of a double
DoubleFractionBits == 52

RECURSIVE BitLength(_)
BitLength(x) == IF x = 0 THEN 0 ELSE 1 + BitLength(x \div 2)

RECURSIVE Pow2(_)
Pow2(k) == IF k = 0 THEN 1 ELSE 2 * Pow2(k - 1)

\* 2^k modulo m, by repeated squaring
RECURSIVE Pow2Mod(_, _)
Pow2Mod(k, m) ==
  IF k = 0 THEN 1 % m
  ELSE LET half == Pow2Mod(k \div 2, m)
       IN  (half * half * (IF k % 2 = 1 THEN 2 ELSE 1)) % m

\* the binary exponent of a / n: the k with 2^k <= a / n < 2^(k + 1)
Exponent(a, n) ==
  LET d == BitLength(a) - BitLength(n)
  IN  IF d >= 0
      THEN IF n * Pow2(d) <= a THEN d ELSE d - 1
      ELSE IF a * Pow2(0 - d) >= n THEN d ELSE d - 1

\* The rounding of the division: with k the exponent of q.num / q.den and
\* s = 52 - k, the double is m * 2^(-s) for the integer m nearest to
\* q.num * 2^s / q.den, ties to the even m; the result is
\* m * q.den - q.num * 2^s, 0 when the division is exact.
RoundingError(q) ==
  IF q.num = 0 THEN 0
  ELSE LET a   == q.num
           n   == q.den
           s   == DoubleFractionBits - Exponent(a, n)
           rem == ((a % n) * Pow2Mod(s, n)) % n
           odd == ((a % (2 * n)) * Pow2Mod(s, 2 * n)) % (2 * n) >= n
           up  == 2 * rem > n \/ (2 * rem = n /\ odd)
       IN  IF up THEN n - rem ELSE 0 - rem

\* the literal 0 the guards return instead of dividing
Zero == [num |-> 0, den |-> 1]

FromInt(n) == [num |-> n, den |-> 1]

\* x < y for quotients of positive denominator
Less(x, y) == x.num * y.den < y.num * x.den

\* x = y as numbers
Same(x, y) == x.num * y.den = y.num * x.den

\* Math.min
MathMin(x, y) == IF Less(y, x) THEN y ELSE x

\* The comparators handed to sort, each as "the comparator is negative on
\* (a, b)", that is a sorts before b.

\* (a, b) => b.length - a.length
Longer(a, b) == Len(a) > Len(b)

\* a variant that compares the inbound counts
MoreLinked_inbound(a, b) == a.backlinkCount > b.backlinkCount

\* (a, b) => b.linkCount - a.linkCount
MoreLinked(a, b) == a.linkCount > b.linkCount

\* (a, b) => b.backlinkCount - a.backlinkCount
MoreReferenced(a, b) == a.backlinkCount > b.backlinkCount

\* (a, b) => b.forwardLinkCount - a.forwardLinkCount
MoreForward(a, b) == a.forwardLinkCount > b.forwardLinkCount

\* (a, b) => b.score - a.score
HigherScore(a, b) == a.score > b.score

\* (a, b) => b.density - a.density
Denser(a, b) == Less(b.density, a.density)

\* (a, b) => a - b
Ascending(a, b) == a < b

\* (a, b) => b.count - a.count
MoreCounted(a, b) == a.count > b.count

\* (a, b) => b.cooccurrence - a.cooccurrence
MoreCooccurring(a, b) == a.cooccurrence > b.cooccurrence

Before(by, a, b) ==
  CASE by = "length"           -> Longer(a, b)
    [] by = "linkCount"        -> MoreLinked(a, b)
    [] by = "backlinkCount"    -> MoreReferenced(a, b)
    [] by = "forwardLinkCount" -> MoreForward(a, b)
    [] by = "score"            -> HigherScore(a, b)
    [] by = "density"          -> Denser(a, b)
    [] by = "value"            -> Ascending(a, b)
    [] by = "count"            -> MoreCounted(a, b)
    [] by = "cooccurrence"     -> MoreCooccurring(a, b)

\* Array.prototype.sort with the comparator named by `by`.  The sort is
\* stable since ES2019 (the build targets node18): elements the comparator
\* does not separate keep their order.
StableSort(s, by) ==
  LET n == Len(s)
      rank(i) == 1 + Cardinality({j \in 1..n :
                       \/ Before(by, s[j], s[i])
                       \/ ~Before(by, s[i], s[j]) /\ j < i})
  IN  [p \in 1..n |-> s[CHOOSE i \in 1..n : rank(i) = p]]

\* Array.prototype.slice(0, limit) for limit >= 0
Slice(s, limit) == SubSeq(s, 1, IF limit < Len(s) THEN limit ELSE Len(s))

\* Array.from(graph.nodes.values()): the nodes in insertion order, each
\* with its id
NodeValues(g) ==
  [i \in DOMAIN g.order |->
     [id               |-> g.order[i],
      linkCount        |-> g.nodes[g.order[i]].linkCount,
      backlinkCount    |-> g.nodes[g.order[i]].backlinkCount,
      forwardLinkCount |-> g.nodes[g.order[i]].forwardLinkCount]]

----------------------------------------------------------------------------
(* getConnectedComponents and getGraphStatistics *)

\* adjacency.get(k)?.add(x): nothing happens for a key the Map lacks
AddIfPresent(adj, k, x) ==
  IF k \in DOMAIN adj THEN [adj EXCEPT ![k] = SetAdd(@, x)] ELSE adj

\* a variant that records an edge at its source only
UndirectedStep_directed(adj, e) == AddIfPresent(adj, e.source, e.target)

\* the body of graph.edges.forEach
UndirectedStep(adj, e) ==
  AddIfPresent(AddIfPresent(adj, e.source, e.target), e.target, e.source)

\* (without a key no edge is recorded)
RECURSIVE UndirectedAdjacency(_, _)
UndirectedAdjacency(adj, edges) ==
  IF edges = <<>> \/ DOMAIN adj = {} THEN adj
  ELSE UndirectedAdjacency(UndirectedStep(adj, Head(edges)), Tail(edges))

\* a variant of dfs that does not descend into the neighbours
Dfs_noDescent(st, adj, slug) ==
  [visited   |-> st.visited \cup {slug},
   component |-> Append(st.component, slug)]

\* dfs(slug, component) and its loop over the neighbours; st holds the
\* shared visited Set and the component being filled
RECURSIVE Dfs(_, _, _), DfsLoop(_, _, _)
Dfs(st, adj, slug) ==
  DfsLoop([visited   |-> st.visited \cup {slug},
           component |-> Append(st.component, slug)],
          adj, GetOrEmpty(adj, slug))

DfsLoop(st, adj, neighbors) ==
  IF neighbors = <<>> THEN st
  ELSE DfsLoop(IF Head(neighbors) \in st.visited
               THEN st
               ELSE Dfs(st, adj, Head(neighbors)),
               adj, Tail(neighbors))

\* graph.nodes.forEach: one dfs from every slug not yet visited
RECURSIVE ComponentsLoop(_, _, _, _)
ComponentsLoop(order, adj, visited, components) ==
  IF order = <<>> THEN components
  ELSE IF Head(order) \in visited
       THEN ComponentsLoop(Tail(order), adj, visited, components)
       ELSE LET st == Dfs([visited |-> visited, component |-> <<>>],
                          adj, Head(order))
            IN  ComponentsLoop(Tail(order), adj, st.visited,
                               IF Len(st.component) > 0
                               THEN Append(components, st.component)
                               ELSE components)

getConnectedComponents(g) ==
  StableSort(ComponentsLoop(g.order,
                            UndirectedAdjacency([k \in DOMAIN g.nodes |-> <<>>],
                                                g.edges),
                            {}, <<>>),
             "length")

\* a variant that counts every node once
TotalConnections_nodes(g, order) == Len(order)

RECURSIVE TotalConnections(_, _)
TotalConnections(g, order) ==
  IF order = <<>> THEN 0
  ELSE g.nodes[Head(order)].linkCount + TotalConnections(g, Tail(order))

RECURSIVE MaxConnections(_, _)
MaxConnections(g, order) ==
  IF order = <<>> THEN 0
  ELSE LET m == MaxConnections(g, SubSeq(order, 1, Len(order) - 1))
           c == g.nodes[order[Len(order)]].linkCount
       IN  IF c > m THEN c ELSE m

\* a variant that divides without looking at the divisor
Density_unguarded(nodeCount, edgeCount) ==
  Quotient(edgeCount, nodeCount * (nodeCount - 1))

\* density = possibleEdges > 0 ? edgeCount / possibleEdges : 0
Density(nodeCount, edgeCount) ==
  LET possibleEdges == nodeCount * (nodeCount - 1)
  IN  IF possibleEdges > 0 THEN Quotient(edgeCount, possibleEdges) ELSE Zero

getGraphStatistics(g) ==
  LET nodeCount  == Cardinality(DOMAIN g.nodes)
      components == getConnectedComponents(g)
  IN  [nodeCount            |-> nodeCount,
       edgeCount            |-> Len(g.edges),
       orphanCount          |-> Cardinality(g.orphans),
       averageConnections   |-> IF nodeCount > 0
                                THEN Quotient(TotalConnections(g, g.order), nodeCount)
                                ELSE Zero,
       maxConnections       |-> MaxConnections(g, g.order),
       componentCount       |-> Len(components),
       largestComponentSize |-> IF Len(components) > 0
                                THEN Len(components[1]) ELSE 0,
       density              |-> Density(nodeCount, Len(g.edges))]

----------------------------------------------------------------------------
(* findMostLinkedNotes, findMostReferencedNotes, findHubs, findAuthorities *)

\* the limit of the two leaderboards when none is given
DefaultLimit == 10

\* the threshold of hubs and authorities when none is given
DefaultThreshold == 5

findMostLinkedNotes(g, limit) ==
  Slice(StableSort(NodeValues(g), "linkCount"), limit)

findMostReferencedNotes(g, limit) ==
  Slice(StableSort(NodeValues(g), "backlinkCount"), limit)

\* a variant that wants more than the threshold
IsHub_above(node, threshold) == node.forwardLinkCount > threshold

\* the filter of findHubs
IsHub(node, threshold) == node.forwardLinkCount >= threshold

\* the filter of findAuthorities
IsAuthority(node, threshold) == node.backlinkCount >= threshold

findHubs(g, threshold) ==
  LET Kept(node) == IsHub(node, threshold)
  IN  StableSort(SelectSeq(NodeValues(g), Kept), "forwardLinkCount")

findAuthorities(g, threshold) ==
  LET Kept(node) == IsAuthority(node, threshold)
  IN  StableSort(SelectSeq(NodeValues(g), Kept), "backlinkCount")

----------------------------------------------------------------------------
(* calculateCentrality *)

\* a variant without the cap
Cap_none(score) == score

\* Math.min(score, 1)
Cap(score) == MathMin(score, FromInt(1))

\* the returned Map: its keys in insertion order and the score of each
calculateCentrality(g) ==
  LET maxPossibleConnections == Cardinality(DOMAIN g.nodes) - 1
  IN  [order |-> g.order,
       score |-> IF maxPossibleConnections = 0
                 THEN [slug \in DOMAIN g.nodes |-> Zero]
                 ELSE [slug \in DOMAIN g.nodes |->
                         Cap(Quotient(g.nodes[slug].linkCount,
                                      maxPossibleConnections))]]

----------------------------------------------------------------------------
(* getNeighborhood *)

\* forEach(edge => { neighborhood.add(x); nextLevel.add(x) }) over the
\* slugs xs that the filtered edges name, in the order of the edges
AddEach(st, xs) ==
  [neighborhood |-> SetAddAll(st.neighborhood, xs),
   nextLevel    |-> SetAddAll(st.nextLevel, xs)]

\* edges.filter(edge => edge.source === current).forEach(...)
AddOutgoing(st, edges, current) ==
  LET Outgoing(e) == e.source = current
      out == SelectSeq(edges, Outgoing)
  IN  AddEach(st, [i \in 1..Len(out) |-> out[i].target])

\* a variant that leaves the incoming connections out
AddIncoming_none(st, edges, current) == st

\* edges.filter(edge => edge.target === current).forEach(...)
AddIncoming(st, edges, current) ==
  LET Incoming(e) == e.target = current
      inc == SelectSeq(edges, Incoming)
  IN  AddEach(st, [i \in 1..Len(inc) |-> inc[i].source])

\* a variant that follows the outgoing connections only
VisitCurrent_outgoing(st, edges, current) == AddOutgoing(st, edges, current)

\* the body of the loop over currentLevel
VisitCurrent(st, edges, current) ==
  AddIncoming(AddOutgoing(st, edges, current), edges, current)

RECURSIVE LevelLoop(_, _, _)
LevelLoop(st, edges, currentLevel) ==
  IF currentLevel = <<>> THEN st
  ELSE VisitCurrent(LevelLoop(st, edges,
                              SubSeq(currentLevel, 1, Len(currentLevel) - 1)),
                    edges, currentLevel[Len(currentLevel)])

\* for (let d = 0; d < depth; d++)
RECURSIVE DepthLoop(_, _, _, _, _)
DepthLoop(neighborhood, currentLevel, edges, d, depth) ==
  \* an empty level adds nothing in the rounds that remain
  IF ~(d < depth) \/ currentLevel = <<>> THEN neighborhood
  ELSE LET st == LevelLoop([neighborhood |-> neighborhood, nextLevel |-> <<>>],
                           edges, currentLevel)
       IN  DepthLoop(st.neighborhood, st.nextLevel, edges, d + 1, depth)

\* Set.prototype.delete
SetDelete(s, x) == FilterSeq(s, Range(s) \ {x})

getNeighborhood(slug, g, depth) ==
  IF slug \notin DOMAIN g.nodes \/ depth < 1 THEN <<>>
  ELSE SetDelete(DepthLoop(<<>>, <<slug>>, g.edges, 0, depth), slug)

----------------------------------------------------------------------------
(* AnalyticsEngine: calculateAnalytics with its basic, graph, content and  *)
(* tag sections.  Word counts, reading times and tags are optional fields *)
(* of a note; a note that lacks one is read with the fallback of the      *)
(* code (0 or the empty list).                                            *)

\* list.push(edge.target) when the source is a key of the Map
DirectedStep(adj, e) ==
  IF e.source \in DOMAIN adj
  THEN [adj EXCEPT ![e.source] = Append(@, e.target)]
  ELSE adj

\* (without a key no edge is recorded)
RECURSIVE DirectedLoop(_, _)
DirectedLoop(adj, edges) ==
  IF edges = <<>> \/ DOMAIN adj = {} THEN adj
  ELSE DirectedLoop(DirectedStep(adj, Head(edges)), Tail(edges))

buildDirectedAdjacency(g) ==
  DirectedLoop([k \in DOMAIN g.nodes |-> <<>>], g.edges)

\* lowLink.set(nodeId, Math.min(lowLink.get(nodeId), value))
LowerLink(st, nodeId, value) ==
  [st EXCEPT !.lowLink[nodeId] = IF value < @ THEN value ELSE @]

\* a variant that ignores the neighbours already indexed
BackEdge_ignored(st, nodeId, neighbor) == st

\* the else-if branch for a neighbour already indexed
BackEdge(st, nodeId, neighbor) ==
  IF neighbor \in st.onStack
  THEN LowerLink(st, nodeId, st.indexMap[neighbor])
  ELSE st

\* the do-while loop: pop down to nodeId and push the component
PopComponent(st, nodeId) ==
  LET n == Len(st.stack)
      p == CHOOSE i \in 1..n : st.stack[i] = nodeId
      component == [i \in 1..(n - p + 1) |-> st.stack[n - i + 1]]
  IN  [st EXCEPT !.stack = SubSeq(st.stack, 1, p - 1),
                 !.onStack = @ \ Range(component),
                 !.components = Append(@, component)]

RECURSIVE visit(_, _, _), NeighborsLoop(_, _, _, _)
visit(st, adj, nodeId) ==
  LET entered == [st EXCEPT
                    !.indexMap = @ @@ (nodeId :> st.index),
                    !.lowLink  = @ @@ (nodeId :> st.index),
                    !.index    = @ + 1,
                    !.stack    = Append(@, nodeId),
                    !.onStack  = @ \cup {nodeId}]
      done == NeighborsLoop(entered, adj, nodeId, GetOrEmpty(adj, nodeId))
  IN  IF done.lowLink[nodeId] = done.indexMap[nodeId]
      THEN PopComponent(done, nodeId)
      ELSE done

NeighborsLoop(st, adj, nodeId, neighbors) ==
  IF neighbors = <<>> THEN st
  ELSE LET neighbor == Head(neighbors)
           next == IF neighbor \notin DOMAIN st.indexMap
                   THEN LET sub == visit(st, adj, neighbor)
                        IN  LowerLink(sub, nodeId, sub.lowLink[neighbor])
                   ELSE BackEdge(st, nodeId, neighbor)
       IN  NeighborsLoop(next, adj, nodeId, Tail(neighbors))

\* graph.nodes.forEach: visit every node not yet indexed
\* (once every node is indexed the rest of the forEach visits nothing)
RECURSIVE VisitAll(_, _, _)
VisitAll(st, adj, order) ==
  IF order = <<>> \/ DOMAIN adj \subseteq DOMAIN st.indexMap THEN st
  ELSE VisitAll(IF Head(order) \in DOMAIN st.indexMap
                THEN st
                ELSE visit(st, adj, Head(order)),
                adj, Tail(order))

findStronglyConnectedComponents(g) ==
  VisitAll([indexMap |-> <<>>, lowLink |-> <<>>, onStack |-> {},
            stack |-> <<>>, components |-> <<>>, index |-> 0],
           buildDirectedAdjacency(g), g.order).components

\* the leaderboards keep this many entries
LeaderboardSize == 10

\* a variant that cuts the entries without sorting them
Leaderboard_unsorted(entries) == Slice(entries, LeaderboardSize)

\* .sort((a, b) => b.score - a.score).slice(0, 10)
Leaderboard(entries) == Slice(StableSort(entries, "score"), LeaderboardSize)

calculateCentralityMeasures(g) ==
  LET nodes == NodeValues(g)
  IN  [highest     |-> Leaderboard([i \in DOMAIN nodes |->
                         [id |-> nodes[i].id, score |-> nodes[i].linkCount]]),
       hubs        |-> Leaderboard([i \in DOMAIN nodes |->
                         [id |-> nodes[i].id, score |-> nodes[i].forwardLinkCount]]),
       authorities |-> Leaderboard([i \in DOMAIN nodes |->
                         [id |-> nodes[i].id, score |-> nodes[i].backlinkCount]])]

\* the reduce over graph.edges: the edges with both ends in the component
InternalEdges(edges, memberSet) ==
  LET Inside(e) == e.source \in memberSet /\ e.target \in memberSet
  IN  Len(SelectSeq(edges, Inside))

\* at most this many clusters are returned
ClusterLimit == 5

\* a variant that also takes the components of two members
IsCluster_pairs(component) == Len(component) > 1

\* the filter of findClusters
IsCluster(component) == Len(component) > 2

ClusterOf(g, component, index) ==
  [id      |-> index,
   members |-> component,
   density |-> Density(Len(component), InternalEdges(g.edges, Range(component)))]

findClusters(g, components) ==
  LET kept == SelectSeq(components, IsCluster)
  IN  Slice(StableSort([i \in DOMAIN kept |-> ClusterOf(g, kept[i], i)], "density"),
            ClusterLimit)

calculateGraphAnalytics(g) ==
  LET nodeCount == Len(NodeValues(g))
      edgeCount == Len(g.edges)
      stronglyConnectedComponents == findStronglyConnectedComponents(g)
  IN  [nodeCount           |-> nodeCount,
       edgeCount           |-> edgeCount,
       orphanCount         |-> Cardinality(g.orphans),
       connectedComponents |-> Len(stronglyConnectedComponents),
       averageDegree       |-> IF nodeCount > 0
                               THEN Quotient(edgeCount, nodeCount) ELSE Zero,
       density             |-> Density(nodeCount, edgeCount),
       centrality          |-> calculateCentralityMeasures(g),
       clusters            |-> findClusters(g, stronglyConnectedComponents)]

\* note.wordCount || 0: a note without the field counts no words
WordCount(note) == IF "wordCount" \in DOMAIN note THEN note.wordCount ELSE 0

\* note.readingTime || 0
ReadingTime(note) == IF "readingTime" \in DOMAIN note THEN note.readingTime ELSE 0

\* note.tags || []
TagsOf(note) == IF "tags" \in DOMAIN note THEN note.tags ELSE <<>>

\* a variant that divides without looking at the count
Average_unguarded(sum, count) == Quotient(sum, count)

\* count > 0 ? sum / count : 0
Average(sum, count) == IF count > 0 THEN Quotient(sum, count) ELSE Zero

calculateBasicStats(ns, g) ==
  LET totalWords == SumSeq([i \in DOMAIN ns |-> WordCount(ns[i])])
  IN  [totalNotes          |-> Len(ns),
       totalLinks          |-> Len(g.edges),
       orphanedNotes       |-> Cardinality(g.orphans),
       averageConnections  |-> IF Len(ns) > 0
                               THEN Quotient(TotalConnections(g, g.order), Len(ns))
                               ELSE Zero,
       totalWords          |-> totalWords,
       averageWordsPerNote |-> Average(totalWords, Len(ns)),
       buildTime           |-> 0]

\* .filter(count => count > 0)
Positive(values) ==
  LET IsPositive(v) == v > 0
  IN  SelectSeq(values, IsPositive)

\* values.length > 0 ? Math.min(...values) : 0
MinOrZero(values) ==
  IF Len(values) > 0
  THEN CHOOSE v \in Range(values) : \A w \in Range(values) : v <= w
  ELSE 0

\* values.length > 0 ? Math.max(...values) : 0
MaxOrZero(values) ==
  IF Len(values) > 0
  THEN CHOOSE v \in Range(values) : \A w \in Range(values) : v >= w
  ELSE 0

\* the middle value of the sorted copy, or the mean of the two middle ones
calculateMedian(values) ==
  IF Len(values) = 0 THEN Zero
  ELSE LET sorted == StableSort(values, "value")
           mid    == Len(sorted) \div 2
       IN  IF Len(sorted) % 2 = 0
           THEN Quotient(sorted[mid] + sorted[mid + 1], 2)
           ELSE FromInt(sorted[mid + 1])

\* how often each value occurs; the key value.toString() names the value
calculateDistribution(values) ==
  [v \in Range(values) |-> Cardinality({i \in DOMAIN values : values[i] = v})]

calculateContentAnalytics(ns) ==
  LET wordCounts   == Positive([i \in DOMAIN ns |-> WordCount(ns[i])])
      readingTimes == Positive([i \in DOMAIN ns |-> ReadingTime(ns[i])])
      linkCounts   == [i \in DOMAIN ns |-> Len(ns[i].linksTo)]
      NoLinks(note) == Len(note.linksTo) = 0
  IN  [wordDistribution |->
         [min     |-> MinOrZero(wordCounts),
          max     |-> MaxOrZero(wordCounts),
          average |-> Average(SumSeq(wordCounts), Len(wordCounts)),
          median  |-> calculateMedian(wordCounts)],
       readingTimeDistribution |->
         [min     |-> MinOrZero(readingTimes),
          max     |-> MaxOrZero(readingTimes),
          average |-> Average(SumSeq(readingTimes), Len(readingTimes))],
       linkDensity |->
         [average      |-> Average(SumSeq(linkCounts), Len(linkCounts)),
          distribution |-> calculateDistribution(linkCounts)],
       orphanageRate |-> Average(Len(SelectSeq(ns, NoLinks)), Len(ns))]

\* the tags a tag analysis can meet, in the order in which the strings
\* compare (tag1 < tag2)
TagOrder == <<"x", "y">>

TagLess(a, b) ==
  \E i, j \in DOMAIN TagOrder : TagOrder[i] = a /\ TagOrder[j] = b /\ i < j

\* topTags keeps this many entries
TopTagsSize == 20

\* relatedTags keeps this many entries
RelatedTagsSize == 10

\* allTags.push(...tags), note after note
AllTags(ns) == Flatten([i \in DOMAIN ns |-> TagsOf(ns[i])])

Occurrences(s, x) == Cardinality({i \in DOMAIN s : s[i] = x})

\* the pairs (tags[i], tags[j]) with i < j of one note, in loop order
TagPairsOf(tags) ==
  Flatten([i \in DOMAIN tags |->
             [j \in 1..(Len(tags) - i) |-> <<tags[i], tags[i + j]>>]])

\* the pairs of all notes, in the order in which the loops meet them
TagPairs(ns) == Flatten([i \in DOMAIN ns |-> TagPairsOf(TagsOf(ns[i]))])

\* the keys that tag1Map.set(tag2, ...) and tag2Map.set(tag1, ...) are
\* called with on the Map of tag k, in order
Partners(pairs, k) ==
  Flatten([e \in DOMAIN pairs |->
             (IF pairs[e][1] = k THEN <<pairs[e][2]>> ELSE <<>>)
             \o (IF pairs[e][2] = k THEN <<pairs[e][1]>> ELSE <<>>)])

\* relatedTags before the sort: the outer and the inner forEach run in
\* the insertion order of the Maps
RelatedTags(ns) ==
  LET pairs == TagPairs(ns)
      outer == SetAddAll(<<>>, Flatten([e \in DOMAIN pairs |->
                                          <<pairs[e][1], pairs[e][2]>>]))
      Row(k) ==
        LET partners == Partners(pairs, k)
            After(t) == TagLess(k, t)
            kept     == SelectSeq(SetAddAll(<<>>, partners), After)
        IN  [i \in DOMAIN kept |->
               [tag1 |-> k, tag2 |-> kept[i],
                cooccurrence |-> Occurrences(partners, kept[i])]]
  IN  Flatten([o \in DOMAIN outer |-> Row(outer[o])])

\* notes.length > 0 ? (count / notes.length) * 100 : 0
Percentage(count, total) ==
  IF total > 0 THEN [ratio |-> Quotient(count, total), times |-> 100]
  ELSE [ratio |-> Zero, times |-> 1]

calculateTagAnalytics(ns) ==
  LET allTags   == AllTags(ns)
      tagCounts == SetAddAll(<<>>, allTags)
  IN  [totalTags          |-> Len(tagCounts),
       averageTagsPerNote |-> Average(Len(allTags), Len(ns)),
       topTags            |->
         Slice(StableSort([i \in DOMAIN tagCounts |->
                             [tag        |-> tagCounts[i],
                              count      |-> Occurrences(allTags, tagCounts[i]),
                              percentage |-> Percentage(
                                Occurrences(allTags, tagCounts[i]), Len(ns))]],
                          "count"),
               TopTagsSize),
       tagDistribution    |->
         [t \in Range(tagCounts) |-> Occurrences(allTags, t)],
       relatedTags        |->
         Slice(StableSort(RelatedTags(ns), "cooccurrence"), RelatedTagsSize)]

calculateAnalytics(ns, g) ==
  [basic   |-> calculateBasicStats(ns, g),
   graph   |-> calculateGraphAnalytics(g),
   content |-> calculateContentAnalytics(ns),
   tags    |-> calculateTagAnalytics(ns)]

----------------------------------------------------------------------------
(* The state machine *)

Init ==
  /\ notes \in NoteLists
  /\ options = DefaultOptions
  /\ graph = EmptyGraph
  /\ raised = FALSE
  /\ pc = "input"
  /\ call = NoCall
  /\ ret = NoCall

Build ==
  /\ pc = "input"
  /\ \E opts \in GraphOptions :
       LET r == buildNoteGraph(notes, opts)
       IN  /\ options' = opts
           /\ graph' = r.graph
           /\ raised' = r.raised
  /\ pc' = "built"
  /\ UNCHANGED <<notes, call, ret>>

\* buildNoteGraph(notes): the options left out, every default applies
BuildDefault ==
  /\ pc = "input"
  /\ LET r == buildNoteGraph(notes, DefaultOptions)
     IN  /\ options' = DefaultOptions
         /\ graph' = r.graph
         /\ raised' = r.raised
  /\ pc' = "built"
  /\ UNCHANGED <<notes, call, ret>>

\* buildNoteGraph with bidirectional left out or false
BuildDirected ==
  /\ pc = "input"
  /\ \E opts \in {o \in GraphOptions : ~o.bidirectional} :
       LET r == buildNoteGraph(notes, opts)
       IN  /\ options' = opts
           /\ graph' = r.graph
           /\ raised' = r.raised
  /\ pc' = "built"
  /\ UNCHANGED <<notes, call, ret>>

\* A query is a pure function of the built graph: each is applied to the
\* graph as buildNoteGraph returned it.
FindShortestPath ==
  /\ pc = "built"
  /\ ~raised
  /\ \E s \in Slugs, t \in Slugs :
       /\ call' = [op |-> "findShortestPath", source |-> s, target |-> t]
       /\ ret' = findShortestPath(s, t, graph)
  /\ pc' = "queried"
  /\ UNCHANGED <<notes, options, graph, raised>>

\* the edges of the given positions, in their order
RECURSIVE EdgesAt(_, _)
EdgesAt(edges, kept) ==
  IF edges = <<>> THEN <<>>
  ELSE LET front == EdgesAt(SubSeq(edges, 1, Len(edges) - 1), kept)
       IN  IF Len(edges) \in kept THEN Append(front, edges[Len(edges)]) ELSE front

\* findShortestPath on the built graph and on the same graph with some of
\* its edges taken out
ComparePaths ==
  /\ pc = "built"
  /\ ~raised
  /\ \E s \in Slugs, t \in Slugs, kept \in SUBSET DOMAIN graph.edges :
       /\ call' = [op |-> "comparePaths", source |-> s, target |-> t, kept |-> kept]
       /\ ret' = [full |-> findShortestPath(s, t, graph),
                  sub  |-> findShortestPath(s, t,
                             [graph EXCEPT !.edges = EdgesAt(graph.edges, kept)])]
  /\ pc' = "queried"
  /\ UNCHANGED <<notes, options, graph, raised>>

GetConnectedComponents ==
  /\ pc = "built"
  /\ ~raised
  /\ call' = [op |-> "getConnectedComponents"]
  /\ ret' = getConnectedComponents(graph)
  /\ pc' = "queried"
  /\ UNCHANGED <<notes, options, graph, raised>>

GetGraphStatistics ==
  /\ pc = "built"
  /\ ~raised
  /\ call' = [op |-> "getGraphStatistics"]
  /\ ret' = getGraphStatistics(graph)
  /\ pc' = "queried"
  /\ UNCHANGED <<notes, options, graph, raised>>

CalculateCentrality ==
  /\ pc = "built"
  /\ ~raised
  /\ call' = [op |-> "calculateCentrality"]
  /\ ret' = calculateCentrality(graph)
  /\ pc' = "queried"
  /\ UNCHANGED <<notes, options, graph, raised>>

GetNeighborhood ==
  /\ pc = "built"
  /\ ~raised
  /\ \E s \in Slugs, depth \in 0..MaxDepth :
       /\ call' = [op |-> "getNeighborhood", slug |-> s, depth |-> depth]
       /\ ret' = getNeighborhood(s, graph, depth)
  /\ pc' = "queried"
  /\ UNCHANGED <<notes, options, graph, raised>>

\* the private step of calculateAnalytics that finds the components
FindStronglyConnectedComponents ==
  /\ pc = "built"
  /\ ~raised
  /\ call' = [op |-> "findStronglyConnectedComponents"]
  /\ ret' = findStronglyConnectedComponents(graph)
  /\ pc' = "queried"
  /\ UNCHANGED <<notes, options, graph, raised>>

\* calculateAnalytics(notes, graph) on the notes the graph was built from
CalculateAnalytics ==
  /\ pc = "built"
  /\ ~raised
  /\ call' = [op |-> "calculateAnalytics"]
  /\ ret' = calculateAnalytics(notes, graph)
  /\ pc' = "queried"
  /\ UNCHANGED <<notes, options, graph, raised>>

\* Note lists large enough for the cluster limit: block i is three notes
\* of the fresh slugs <<i, 1>>, <<i, 2>>, <<i, 3>>, linked in one of the
\* shapes below: two notes linking to each other beside a third, a cycle
\* whose last note also links to the first note of the block before, and
\* every note linking to the two others.
Shapes == {"pair", "bridged", "full"}

BlockNote(i, k, targets) ==
  [slug |-> <<i, k>>, linksTo |-> [j \in DOMAIN targets |-> <<i, targets[j]>>]]

BlockOf(i, shape) ==
  CASE shape = "pair"    -> <<BlockNote(i, 1, <<2>>), BlockNote(i, 2, <<1>>),
                              BlockNote(i, 3, <<>>)>>
    [] shape = "bridged" -> <<BlockNote(i, 1, <<2>>), BlockNote(i, 2, <<3>>),
                              [slug |-> <<i, 3>>,
                               linksTo |-> <<(<<i, 1>>), (<<i - 1, 1>>)>>]>>
    [] shape = "full"    -> <<BlockNote(i, 1, <<2, 3>>), BlockNote(i, 2, <<3, 1>>),
                              BlockNote(i, 3, <<1, 2>>)>>

RECURSIVE NotesOfBlocks(_)
NotesOfBlocks(shapes) ==
  IF shapes = <<>> THEN <<>>
  ELSE NotesOfBlocks(SubSeq(shapes, 1, Len(shapes) - 1))
       \o BlockOf(Len(shapes), shapes[Len(shapes)])

InitBlocks ==
  /\ \E shapes \in SeqsUpTo(Shapes, MaxBlocks) : notes = NotesOfBlocks(shapes)
  /\ options = DefaultOptions
  /\ graph = EmptyGraph
  /\ raised = FALSE
  /\ pc = "input"
  /\ call = NoCall
  /\ ret = NoCall

\* Note lists for the averages: n notes of the slugs <<1>> .. <<n>> laid
\* out as a star; note <<1>> links to the `out` notes after it, and the
\* `back` notes after it link to note <<1>>.
StarNote(i, out, back) ==
  [slug    |-> <<i>>,
   linksTo |-> IF i = 1 THEN [j \in 1..out |-> <<j + 1>>]
               ELSE IF i <= back + 1 THEN <<(<<1>>)>>
               ELSE <<>>]

StarLists ==
  {[i \in 1..n |-> StarNote(i, out, back)] :
     n \in 0..MaxStar, out \in 0..(MaxStar - 1), back \in 0..(MaxStar - 1)}

InitStar ==
  /\ notes \in StarLists
  /\ options = DefaultOptions
  /\ graph = EmptyGraph
  /\ raised = FALSE
  /\ pc = "input"
  /\ call = NoCall
  /\ ret = NoCall

\* Note lists as the web build hands them to calculateAnalytics: note i
\* has the i-th slug, links to nothing or to the first note, and carries a
\* word count, a reading time and tags.
WebNotesAt(i) ==
  {[slug |-> SlugOrder[i], linksTo |-> l, wordCount |-> w,
    readingTime |-> r, tags |-> t] :
     l \in {<<>>, <<SlugOrder[1]>>}, w \in {0, 1, 3}, r \in {0, 2},
     t \in {<<>>, <<"x">>, <<"y", "x">>}}

RECURSIVE WebListsOf(_)
WebListsOf(n) ==
  IF n = 0 THEN {<<>>}
  ELSE {Append(l, x) : l \in WebListsOf(n - 1), x \in WebNotesAt(n)}

InitWeb ==
  /\ \E n \in 0..MaxWebNotes : notes \in WebListsOf(n)
  /\ options = DefaultOptions
  /\ graph = EmptyGraph
  /\ raised = FALSE
  /\ pc = "input"
  /\ call = NoCall
  /\ ret = NoCall

\* label: note.metadata.title || note.slug, of the note that set the node
\* last; a note without metadata here stands for one without a title
LabelOf(note) ==
  IF "metadata" \in DOMAIN note /\ "title" \in DOMAIN note.metadata
  THEN note.metadata.title
  ELSE note.slug

\* the labels of the nodes of the graph built from ns
NodeLabels(ns, keys) == [s \in keys |-> LabelOf(LastNoteOf(ns, s))]

\* a variant that takes the links out of the notes while it walks them
NotesAfterBuild_drained(ns) ==
  [i \in DOMAIN ns |-> [ns[i] EXCEPT !.linksTo = <<>>]]

\* the note list after a call of buildNoteGraph: the function reads the
\* list, note.slug, note.metadata and note.linksTo and assigns to none
NotesAfterBuild(ns) == ns

\* the note lists of Init, every other note carrying a title
InitTitled ==
  /\ \E ns \in NoteLists :
       notes = [i \in DOMAIN ns |->
                  IF i % 2 = 1
                  THEN [slug |-> ns[i].slug, linksTo |-> ns[i].linksTo,
                        metadata |-> [title |-> <<"title", i>>]]
                  ELSE ns[i]]
  /\ options = DefaultOptions
  /\ graph = EmptyGraph
  /\ raised = FALSE
  /\ pc = "input"
  /\ call = NoCall
  /\ ret = NoCall

\* a first call of buildNoteGraph; the call record keeps the list as it
\* was handed over and the labels of the nodes
BuildFirst ==
  /\ pc = "input"
  /\ \E opts \in GraphOptions :
       LET r == buildNoteGraph(notes, opts)
       IN  /\ options' = opts
           /\ graph' = r.graph
           /\ raised' = r.raised
           /\ call' = [op |-> "buildNoteGraph", notes |-> notes,
                       labels |-> NodeLabels(notes, DOMAIN r.graph.nodes)]
  /\ notes' = NotesAfterBuild(notes)
  /\ pc' = "built"
  /\ UNCHANGED ret

\* a second call with the same options on the list the first call left
BuildAgain ==
  /\ pc = "built"
  /\ call.op = "buildNoteGraph"
  /\ LET r == buildNoteGraph(notes, options)
     IN  ret' = [graph |-> r.graph, raised |-> r.raised,
                 labels |-> NodeLabels(notes, DOMAIN r.graph.nodes)]
  /\ call' = [call EXCEPT !.op = "buildNoteGraph again"]
  /\ notes' = NotesAfterBuild(notes)
  /\ pc' = "queried"
  /\ UNCHANGED <<options, graph, raised>>

Limits == 0..MaxLimit \cup {DefaultLimit}

Thresholds == 0..MaxThreshold \cup {DefaultThreshold}

FindMostLinkedNotes ==
  /\ pc = "built"
  /\ ~raised
  /\ \E limit \in Limits :
       /\ call' = [op |-> "findMostLinkedNotes", limit |-> limit]
       /\ ret' = findMostLinkedNotes(graph, limit)
  /\ pc' = "queried"
  /\ UNCHANGED <<notes, options, graph, raised>>

FindMostReferencedNotes ==
  /\ pc = "built"
  /\ ~raised
  /\ \E limit \in Limits :
       /\ call' = [op |-> "findMostReferencedNotes", limit |-> limit]
       /\ ret' = findMostReferencedNotes(graph, limit)
  /\ pc' = "queried"
  /\ UNCHANGED <<notes, options, graph, raised>>

FindHubs ==
  /\ pc = "built"
  /\ ~raised
  /\ \E threshold \in Thresholds :
       /\ call' = [op |-> "findHubs", threshold |-> threshold]
       /\ ret' = findHubs(graph, threshold)
  /\ pc' = "queried"
  /\ UNCHANGED <<notes, options, graph, raised>>

FindAuthorities ==
  /\ pc = "built"
  /\ ~raised
  /\ \E threshold \in Thresholds :
       /\ call' = [op |-> "findAuthorities", threshold |-> threshold]
       /\ ret' = findAuthorities(graph, threshold)
  /\ pc' = "queried"
  /\ UNCHANGED <<notes, options, graph, raised>>

\* the two component counts of one graph side by side: calculateAnalytics
\* with the components its private step finds, and getGraphStatistics
\* with the components of getConnectedComponents
CompareComponents ==
  /\ pc = "built"
  /\ ~raised
  /\ call' = [op |-> "compareComponents"]
  /\ ret' = [analytics  |-> calculateAnalytics(notes, graph),
             strong     |-> findStronglyConnectedComponents(graph),
             statistics |-> getGraphStatistics(graph),
             components |-> getConnectedComponents(graph)]
  /\ pc' = "queried"
  /\ UNCHANGED <<notes, options, graph, raised>>

\* the neighborhood of a slug beside the components of the same graph
CompareNeighborhood ==
  /\ pc = "built"
  /\ ~raised
  /\ \E s \in Slugs, depth \in 0..MaxDepth :
       /\ call' = [op |-> "compareNeighborhood", slug |-> s, depth |-> depth]
       /\ ret' = [neighborhood |-> getNeighborhood(s, graph, depth),
                  components   |-> getConnectedComponents(graph)]
  /\ pc' = "queried"
  /\ UNCHANGED <<notes, options, graph, raised>>

GetBacklinks ==
  /\ pc = "built"
  /\ ~raised
  /\ \E s \in Slugs :
       /\ call' = [op |-> "getBacklinks", slug |-> s]
       /\ ret' = getBacklinks(s, graph)
  /\ pc' = "queried"
  /\ UNCHANGED <<notes, options, graph, raised>>

GetConnections ==
  /\ pc = "built"
  /\ ~raised
  /\ \E s \in Slugs :
       /\ call' = [op |-> "getConnections", slug |-> s]
       /\ ret' = getConnections(s, graph)
  /\ pc' = "queried"
  /\ UNCHANGED <<notes, options, graph, raised>>

\* the calls of the query and analysis functions, each with its arguments
QueryCalls ==
  [op : {"getBacklinks", "getConnections"}, slug : Slugs]
    \cup [op : {"findShortestPath"}, source : Slugs, target : Slugs]
    \cup [op : {"findMostLinkedNotes", "findMostReferencedNotes"},
          limit : Limits]
    \cup [op : {"findHubs", "findAuthorities"}, threshold : Thresholds]
    \cup [op : {"calculateCentrality", "getConnectedComponents",
                "getGraphStatistics", "calculateAnalytics"}]
    \cup [op : {"getNeighborhood"}, slug : Slugs, depth : 0..MaxDepth]

\* what the call returns on the graph g built from the notes ns
Answer(c, ns, g) ==
  CASE c.op = "getBacklinks" -> getBacklinks(c.slug, g)
    [] c.op = "getConnections" -> getConnections(c.slug, g)
    [] c.op = "findShortestPath" -> findShortestPath(c.source, c.target, g)
    [] c.op = "findMostLinkedNotes" -> findMostLinkedNotes(g, c.limit)
    [] c.op = "findMostReferencedNotes" ->
         findMostReferencedNotes(g, c.limit)
    [] c.op = "findHubs" -> findHubs(g, c.threshold)
    [] c.op = "findAuthorities" -> findAuthorities(g, c.threshold)
    [] c.op = "calculateCentrality" -> calculateCentrality(g)
    [] c.op = "getConnectedComponents" -> getConnectedComponents(g)
    [] c.op = "getNeighborhood" -> getNeighborhood(c.slug, g, c.depth)
    [] c.op = "getGraphStatistics" -> getGraphStatistics(g)
    [] c.op = "calculateAnalytics" -> calculateAnalytics(ns, g)

\* a variant of the graph a call leaves: the rankings sort the node map
\* of the graph itself
GraphAfter_sortedInPlace(c, g) ==
  IF c.op \in {"findMostLinkedNotes", "findMostReferencedNotes"}
  THEN LET sorted == StableSort(NodeValues(g),
                       IF c.op = "findMostLinkedNotes"
                       THEN "linkCount" ELSE "backlinkCount")
       IN  [g EXCEPT !.order = [i \in DOMAIN sorted |-> sorted[i].id]]
  ELSE g

\* The graph a call leaves behind.  No function writes to its graph
\* argument: each reads nodes, edges and backlinks, collects into maps,
\* sets and arrays of its own, and sorts only arrays it made itself
\* (Array.from, filter, map and the spread copy).
GraphAfter(c, g) == g

\* a query whose result is not looked at again; any number of them may run
QueryBefore ==
  /\ pc \in {"built", "used"}
  /\ ~raised
  /\ \E c \in QueryCalls : graph' = GraphAfter(c, graph)
  /\ pc' = "used"
  /\ UNCHANGED <<notes, options, raised, call, ret>>

\* a query on a graph that earlier queries have read
QueryAfter ==
  /\ pc \in {"built", "used"}
  /\ ~raised
  /\ \E c \in QueryCalls :
       /\ call' = c
       /\ ret' = Answer(c, notes, graph)
       /\ graph' = GraphAfter(c, graph)
  /\ pc' = IF pc = "used" THEN "requeried" ELSE "queried"
  /\ UNCHANGED <<notes, options, raised>>

\* The traversals one step at a time.  While a call runs, ret holds its
\* local variables: the working maps and sets of the code, the frames of
\* the recursive calls still open, and a log of every push or entry.

\* findShortestPath up to its while loop
StartShortestPath ==
  /\ pc = "built"
  /\ ~raised
  /\ \E s \in Slugs, t \in Slugs :
       /\ call' = [op |-> "findShortestPath", source |-> s, target |-> t]
       /\ IF s \notin DOMAIN graph.nodes \/ t \notin DOMAIN graph.nodes
          THEN /\ ret' = [result |-> Null, enqueued |-> <<>>]
               /\ pc' = "queried"
          ELSE IF s = t
          THEN /\ ret' = [result |-> Found(<<s>>), enqueued |-> <<>>]
               /\ pc' = "queried"
          ELSE /\ ret' = [st |-> [queue |-> <<s>>, visited |-> {s},
                                  parent |-> <<>>],
                          adj |-> Adjacency(<<>>, graph.edges),
                          enqueued |-> <<s>>]
               /\ pc' = "running"
  /\ UNCHANGED <<notes, options, graph, raised>>

\* one iteration of while (queue.length > 0), or the return after it
StepShortestPath ==
  /\ pc = "running"
  /\ call.op = "findShortestPath"
  /\ IF ret.st.queue = <<>>
     THEN /\ ret' = [result |-> Null, enqueued |-> ret.enqueued]
          /\ pc' = "queried"
     ELSE LET current == Head(ret.st.queue)
              shifted == [ret.st EXCEPT !.queue = Tail(@)]
              next == VisitLoop(shifted, current, GetOrEmpty(ret.adj, current))
          IN  IF current = call.target
              THEN /\ ret' = [result |-> Found(ReconstructPath(ret.st.parent,
                                                               call.target)),
                              enqueued |-> ret.enqueued]
                   /\ pc' = "queried"
              ELSE /\ ret' = [ret EXCEPT
                                !.st = next,
                                !.enqueued = @ \o SubSeq(next.queue,
                                                         Len(shifted.queue) + 1,
                                                         Len(next.queue))]
                   /\ pc' = pc
  /\ UNCHANGED <<notes, options, graph, raised, call>>

\* getConnectedComponents up to its forEach over the nodes
StartComponents ==
  /\ pc = "built"
  /\ ~raised
  /\ call' = [op |-> "getConnectedComponents"]
  /\ ret' = [roots |-> graph.order,
             adj |-> UndirectedAdjacency([k \in DOMAIN graph.nodes |-> <<>>],
                                         graph.edges),
             visited |-> {}, component |-> <<>>, components |-> <<>>,
             frames |-> <<>>, entered |-> <<>>]
  /\ pc' = "running"
  /\ UNCHANGED <<notes, options, graph, raised>>

\* the call dfs(slug, component) up to its loop over the neighbours
EnterDfs(r, slug) ==
  [r EXCEPT !.visited = @ \cup {slug},
            !.component = Append(@, slug),
            !.frames = Append(@, [slug |-> slug,
                                  rest |-> GetOrEmpty(r.adj, slug)]),
            !.entered = Append(@, slug)]

\* one step of getConnectedComponents: the next node of the forEach, the
\* next neighbour of the innermost dfs, the return of a dfs, or the sort
StepComponents ==
  /\ pc = "running"
  /\ call.op = "getConnectedComponents"
  /\ LET n == Len(ret.frames)
     IN  IF n = 0
         THEN IF ret.roots = <<>>
              THEN /\ ret' = [result |-> StableSort(ret.components, "length"),
                              entered |-> ret.entered]
                   /\ pc' = "queried"
              ELSE LET slug == Head(ret.roots)
                       rest == [ret EXCEPT !.roots = Tail(@)]
                   IN  /\ ret' = IF slug \in ret.visited
                                 THEN rest
                                 ELSE EnterDfs([rest EXCEPT !.component = <<>>],
                                               slug)
                       /\ pc' = pc
         ELSE IF ret.frames[n].rest = <<>>
              THEN LET popped == [ret EXCEPT !.frames = SubSeq(@, 1, n - 1)]
                   IN  /\ ret' = IF n = 1 /\ Len(ret.component) > 0
                                 THEN [popped EXCEPT
                                         !.components = Append(@, ret.component)]
                                 ELSE popped
                       /\ pc' = pc
              ELSE LET neighbor == Head(ret.frames[n].rest)
                       advanced == [ret EXCEPT !.frames[n].rest = Tail(@)]
                   IN  /\ ret' = IF neighbor \in ret.visited
                                 THEN advanced
                                 ELSE EnterDfs(advanced, neighbor)
                       /\ pc' = pc
  /\ UNCHANGED <<notes, options, graph, raised, call>>

\* findStronglyConnectedComponents up to its forEach over the nodes
StartStrongComponents ==
  /\ pc = "built"
  /\ ~raised
  /\ call' = [op |-> "findStronglyConnectedComponents"]
  /\ ret' = [roots |-> graph.order,
             adj |-> buildDirectedAdjacency(graph),
             st |-> [indexMap |-> <<>>, lowLink |-> <<>>, onStack |-> {},
                     stack |-> <<>>, components |-> <<>>, index |-> 0],
             frames |-> <<>>, entered |-> <<>>]
  /\ pc' = "running"
  /\ UNCHANGED <<notes, options, graph, raised>>

\* the call visit(nodeId) up to its loop over the neighbours
EnterVisit(r, nodeId) ==
  [r EXCEPT !.st = [r.st EXCEPT
                      !.indexMap = @ @@ (nodeId :> r.st.index),
                      !.lowLink  = @ @@ (nodeId :> r.st.index),
                      !.index    = @ + 1,
                      !.stack    = Append(@, nodeId),
                      !.onStack  = @ \cup {nodeId}],
            !.frames = Append(@, [nodeId |-> nodeId,
                                  rest |-> GetOrEmpty(r.adj, nodeId)]),
            !.entered = Append(@, nodeId)]

\* the end of visit(nodeId): the component is popped when nodeId is its
\* root, and the caller, if there is one, lowers its link
LeaveVisit(r) ==
  LET n == Len(r.frames)
      nodeId == r.frames[n].nodeId
      closed == IF r.st.lowLink[nodeId] = r.st.indexMap[nodeId]
                THEN PopComponent(r.st, nodeId)
                ELSE r.st
  IN  [r EXCEPT !.st = IF n > 1
                       THEN LowerLink(closed, r.frames[n - 1].nodeId,
                                      closed.lowLink[nodeId])
                       ELSE closed,
                !.frames = SubSeq(@, 1, n - 1)]

\* one step of findStronglyConnectedComponents: the next node of the
\* forEach, the next neighbour of the innermost visit, or its return
StepStrongComponents ==
  /\ pc = "running"
  /\ call.op = "findStronglyConnectedComponents"
  /\ LET n == Len(ret.frames)
     IN  IF n = 0
         THEN IF ret.roots = <<>>
              THEN /\ ret' = [result |-> ret.st.components,
                              entered |-> ret.entered]
                   /\ pc' = "queried"
              ELSE LET nodeId == Head(ret.roots)
                       rest == [ret EXCEPT !.roots = Tail(@)]
                   IN  /\ ret' = IF nodeId \in DOMAIN ret.st.indexMap
                                 THEN rest
                                 ELSE EnterVisit(rest, nodeId)
                       /\ pc' = pc
         ELSE IF ret.frames[n].rest = <<>>
              THEN /\ ret' = LeaveVisit(ret)
                   /\ pc' = pc
              ELSE LET neighbor == Head(ret.frames[n].rest)
                       advanced == [ret EXCEPT !.frames[n].rest = Tail(@)]
                   IN  /\ ret' = IF neighbor \notin DOMAIN ret.st.indexMap
                                 THEN EnterVisit(advanced, neighbor)
                                 ELSE [advanced EXCEPT
                                         !.st = BackEdge(@, ret.frames[n].nodeId,
                                                         neighbor)]
                       /\ pc' = pc
  /\ UNCHANGED <<notes, options, graph, raised, call>>

\* getNeighborhood up to its for loop
StartNeighborhood ==
  /\ pc = "built"
  /\ ~raised
  /\ \E s \in Slugs, depth \in 0..MaxDepth :
       /\ call' = [op |-> "getNeighborhood", slug |-> s, depth |-> depth]
       /\ IF s \notin DOMAIN graph.nodes \/ depth < 1
          THEN /\ ret' = [result |-> <<>>, rounds |-> 0]
               /\ pc' = "queried"
          ELSE /\ ret' = [neighborhood |-> <<>>, currentLevel |-> <<s>>,
                          d |-> 0, rounds |-> 0]
               /\ pc' = "running"
  /\ UNCHANGED <<notes, options, graph, raised>>

\* a variant of the loop condition: one round more
AnotherRound_inclusive(d, depth) == d <= depth

\* the condition of for (let d = 0; d < depth; d++)
AnotherRound(d, depth) == d < depth

\* the sources of the edges that enter the slug, in edge order
SourcesInto(slug, edges) ==
  LET inc == SelectSeq(edges, LAMBDA e : e.target = slug)
  IN  [i \in DOMAIN inc |-> inc[i].source]

\* the slugs the two forEach loops add for each slug of the level, in the
\* order they add them
RoundAdds(edges, currentLevel) ==
  [i \in DOMAIN currentLevel |->
     ForwardOf(currentLevel[i], edges) \o SourcesInto(currentLevel[i], edges)]

\* one round of the for loop, or the return after it
StepNeighborhood ==
  /\ pc = "running"
  /\ call.op = "getNeighborhood"
  /\ IF AnotherRound(ret.d, call.depth)
     THEN \E adds \in {RoundAdds(graph.edges, ret.currentLevel)} :
          \E added \in {Flatten(adds)} :
            /\ ret' = [neighborhood |-> SetAddAll(ret.neighborhood, added),
                       currentLevel |-> SetAddAll(<<>>, added),
                       d |-> ret.d + 1, rounds |-> ret.rounds + 1]
            /\ pc' = pc
     ELSE /\ ret' = [result |-> SetDelete(ret.neighborhood, call.slug),
                     rounds |-> ret.rounds]
          /\ pc' = "queried"
  /\ UNCHANGED <<notes, options, graph, raised, call>>

\* maxDepth of getReachableNotes: a number of links, or Infinity when the
\* argument is left out
Unlimited == [finite |-> FALSE, value |-> 0]

MaxDepths == {Unlimited} \cup [finite : {TRUE}, value : 0..MaxDepth]

\* a variant of the depth test: depth >= maxDepth
DeeperThan_inclusive(depth, maxDepth) ==
  maxDepth.finite /\ depth >= maxDepth.value

\* depth > maxDepth (never so for Infinity)
DeeperThan(depth, maxDepth) ==
  maxDepth.finite /\ depth > maxDepth.value

\* getReachableNotes up to its while loop
StartReachable ==
  /\ pc = "built"
  /\ ~raised
  /\ \E start \in Slugs, maxDepth \in MaxDepths :
       /\ call' = [op |-> "getReachableNotes", start |-> start,
                   maxDepth |-> maxDepth]
       /\ IF start \notin NoteMapKeys(notes)
          THEN /\ ret' = [result |-> <<>>]
               /\ pc' = "queried"
          ELSE /\ ret' = [visited |-> <<>>,
                          queue |-> <<[slug |-> start, depth |-> 0]>>]
               /\ pc' = "running"
  /\ UNCHANGED <<notes, options, graph, raised>>

\* one iteration of while (queue.length > 0), or the return after it
StepReachable ==
  /\ pc = "running"
  /\ call.op = "getReachableNotes"
  /\ IF ret.queue = <<>>
     THEN /\ ret' = [result |-> ret.visited]
          /\ pc' = "queried"
     ELSE LET slug == Head(ret.queue).slug
              depth == Head(ret.queue).depth
              visited == Append(ret.visited, slug)
              Wanted(targetSlug) ==
                /\ targetSlug \in NoteMapKeys(notes)
                /\ targetSlug \notin Range(visited)
              targets == SelectSeq(LastNoteOf(notes, slug).linksTo, Wanted)
          IN  /\ ret' = IF slug \in Range(ret.visited)
                           \/ DeeperThan(depth, call.maxDepth)
                        THEN [ret EXCEPT !.queue = Tail(@)]
                        ELSE [visited |-> visited,
                              queue |-> Tail(ret.queue) \o
                                        [i \in DOMAIN targets |->
                                           [slug |-> targets[i],
                                            depth |-> depth + 1]]]
              /\ pc' = pc
  /\ UNCHANGED <<notes, options, graph, raised, call>>

Next == Build

\* buildNoteGraph over every note list and every combination of options
Spec == Init /\ [][Next]_vars

\* the note lists the parser hands over: one note per slug
QueryLists == NoteListsWith(MaxQueryLinks, TRUE)

InitUnique ==
  /\ notes \in QueryLists
  /\ options = DefaultOptions
  /\ graph = EmptyGraph
  /\ raised = FALSE
  /\ pc = "input"
  /\ call = NoCall
  /\ ret = NoCall

NextQuery == Build \/ FindShortestPath

\* a graph is built and then queried
SpecQuery == InitUnique /\ [][NextQuery]_vars

NextMonotone == BuildDefault \/ ComparePaths

\* the shortest paths of a graph and of the graph with fewer edges
SpecMonotone == InitUnique /\ [][NextMonotone]_vars

NextStats ==
  \/ Build
  \/ GetConnectedComponents
  \/ GetGraphStatistics
  \/ CalculateCentrality
  \/ FindStronglyConnectedComponents
  \/ CalculateAnalytics

\* a graph is built and then analysed
SpecStats == InitUnique /\ [][NextStats]_vars

NextNeighborhood == Build \/ GetNeighborhood

\* a graph is built and the neighbourhood of a slug is asked for
SpecNeighborhood == InitUnique /\ [][NextNeighborhood]_vars

NextClusters == BuildDefault \/ CalculateAnalytics

\* the analytics of graphs with more components than the cluster limit
SpecClusters == InitBlocks /\ [][NextClusters]_vars

NextAverages == BuildDirected \/ GetGraphStatistics

\* the statistics of graphs of up to MaxStar nodes, built without reverse
\* edges
SpecAverages == InitStar /\ [][NextAverages]_vars

NextRank ==
  \/ Build
  \/ FindMostLinkedNotes
  \/ FindMostReferencedNotes
  \/ FindHubs
  \/ FindAuthorities

\* a graph is built and its nodes are ranked
SpecRank == InitUnique /\ [][NextRank]_vars

NextLeaders == BuildDirected \/ CalculateAnalytics

\* the analytics of graphs with more nodes than a leaderboard holds
SpecLeaders == InitStar /\ [][NextLeaders]_vars

NextWeb == BuildDefault \/ CalculateAnalytics

\* the analytics of notes that carry word counts, reading times and tags
SpecWeb == InitWeb /\ [][NextWeb]_vars

NextTwice == BuildFirst \/ BuildAgain

\* buildNoteGraph is called twice on the same list with the same options
SpecTwice == InitTitled /\ [][NextTwice]_vars

NextLinks == Build \/ GetBacklinks \/ GetConnections

\* a graph is built under any options and asked for the links of a note
SpecLinks == Init /\ [][NextLinks]_vars

NextCompare == Build \/ CompareComponents \/ CompareNeighborhood

\* a graph is built under any options and two of its analyses are compared
SpecCompare == InitUnique /\ [][NextCompare]_vars

NextSequence == BuildDefault \/ QueryBefore \/ QueryAfter

\* a graph is built and queried any number of times
SpecSequence == InitUnique /\ [][NextSequence]_vars

NextReachable == BuildDefault \/ StartReachable \/ StepReachable

\* the notes are walked from a start slug, one queue entry at a step; a
\* call that has started keeps running
SpecReachable ==
  InitUnique /\ [][NextReachable]_vars /\ WF_vars(StepReachable)

StartTraversal ==
  \/ StartShortestPath
  \/ StartComponents
  \/ StartStrongComponents
  \/ StartNeighborhood

StepTraversal ==
  \/ StepShortestPath
  \/ StepComponents
  \/ StepStrongComponents
  \/ StepNeighborhood

NextTraverse == BuildDefault \/ StartTraversal \/ StepTraversal

\* a traversal runs step by step; a call that has started keeps running
SpecTraverse ==
  InitUnique /\ [][NextTraverse]_vars /\ WF_vars(StepTraversal)

----------------------------------------------------------------------------
(* Vocabulary of the properties, stated on the inputs and the returned     *)
(* graph without the operators of the model                                *)

Built == pc # "input"

NodeKeys == DOMAIN graph.nodes

EdgesFrom(s) == {i \in DOMAIN graph.edges : graph.edges[i].source = s}

EdgesInto(t) == {i \in DOMAIN graph.edges : graph.edges[i].target = t}

InputSlugs == {notes[i].slug : i \in DOMAIN notes}

\* s links to t somewhere in the note list
LinksTo(s, t) ==
  \E i \in DOMAIN notes :
    /\ notes[i].slug = s
    /\ \E j \in DOMAIN notes[i].linksTo : notes[i].linksTo[j] = t

\* the distinct sources recorded for t before any node is removed
SourcesBeforeRemoval(t) ==
  {s \in InputSlugs :
     \/ LinksTo(s, t)
     \/ options.bidirectional /\ s # t /\ LinksTo(t, s)}

\* the outbound-link list behind the node of slug s
RawLinksOf(s) ==
  LET last == CHOOSE i \in DOMAIN notes :
                /\ notes[i].slug = s
                /\ \A j \in (i + 1)..Len(notes) : notes[j].slug # s
  IN  notes[last].linksTo

PreRemovalLinkCount(s) ==
  Len(RawLinksOf(s)) + Cardinality(SourcesBeforeRemoval(s))

DefaultFiltering == options.includeOrphans /\ options.minimumConnections = 0

----------------------------------------------------------------------------
(* Properties of buildNoteGraph *)

\* C1: every node of the returned graph has linkCount = forwardLinkCount +
\* backlinkCount, forwardLinkCount being the number of returned edges that
\* leave the node and backlinkCount the number that enter it.
C1_LinkCountIsSum ==
  Built =>
    \A s \in NodeKeys :
      /\ graph.nodes[s].linkCount =
           graph.nodes[s].forwardLinkCount + graph.nodes[s].backlinkCount
      /\ graph.nodes[s].forwardLinkCount = Cardinality(EdgesFrom(s))
      /\ graph.nodes[s].backlinkCount = Cardinality(EdgesInto(s))

\* a filtered, bidirectional graph with a node that has both kinds of edges
C1_Witness ==
  /\ Built
  /\ options.bidirectional
  /\ options.minimumConnections > 0
  /\ NodeKeys # InputSlugs
  /\ \E s \in NodeKeys :
       /\ graph.nodes[s].forwardLinkCount > 0
       /\ graph.nodes[s].backlinkCount > 0
       /\ graph.nodes[s].linkCount >= 4

\* C2: every returned edge has its source and its target among the keys of
\* nodes.
C2_NoDanglingEdges ==
  Built =>
    \A i \in DOMAIN graph.edges :
      graph.edges[i].source \in NodeKeys /\ graph.edges[i].target \in NodeKeys

\* the link of a kept node to a removed node was dropped, an edge is left
C2_Witness ==
  /\ Built
  /\ graph.edges # <<>>
  /\ \E s \in NodeKeys, t \in InputSlugs \ NodeKeys : LinksTo(s, t)

\* C3: the returned orphans are exactly the nodes whose final linkCount is
\* 0; a node carrying a self-link is no orphan.
C3_OrphansAreZeroCount ==
  Built =>
    /\ graph.orphans = {s \in NodeKeys : graph.nodes[s].linkCount = 0}
    /\ \A s \in NodeKeys :
         (\E i \in DOMAIN graph.edges : graph.edges[i] = [source |-> s, target |-> s])
            => s \notin graph.orphans

\* a node that had links before the filtering is returned as an orphan,
\* next to a node whose only edges are self-links
C3_Witness ==
  /\ Built
  /\ \E s \in graph.orphans : PreRemovalLinkCount(s) > 0
  /\ \E s \in NodeKeys \ graph.orphans :
       \A i \in EdgesFrom(s) \cup EdgesInto(s) :
         graph.edges[i] = [source |-> s, target |-> s]

\* C4: the keys of backlinks are the keys of nodes, and backlinks[t] is the
\* set of sources of the returned edges into t.
C4_BacklinksMatchEdges ==
  Built =>
    /\ DOMAIN graph.backlinks = NodeKeys
    /\ \A t \in NodeKeys :
         Range(graph.backlinks[t]) = {graph.edges[i].source : i \in EdgesInto(t)}

\* a node was removed that was a backlink source of a kept node, which
\* keeps another source
C4_Witness ==
  /\ Built
  /\ \E t \in NodeKeys :
       /\ graph.backlinks[t] # <<>>
       /\ \E s \in InputSlugs \ NodeKeys : LinksTo(s, t)

\* C5: with includeOrphans = false no returned node has linkCount 0 and the
\* returned orphans set is empty.
C5_NoOrphansWhenExcluded ==
  (Built /\ ~options.includeOrphans) =>
    /\ graph.orphans = {}
    /\ \A s \in NodeKeys : graph.nodes[s].linkCount # 0

\* C6: with includeOrphans = true a node is kept iff the raw length of its
\* outbound-link list plus the number of its distinct backlink sources,
\* both taken before any removal, reaches minimumConnections.
C6_ThresholdOnce ==
  (Built /\ options.includeOrphans) =>
    \A s \in InputSlugs :
      s \in NodeKeys <=> PreRemovalLinkCount(s) >= options.minimumConnections

\* a node is kept although the removal of its neighbours left it below the
\* threshold
C6_Witness ==
  /\ Built
  /\ options.includeOrphans
  /\ NodeKeys # InputSlugs
  /\ \E s \in NodeKeys : graph.nodes[s].linkCount < options.minimumConnections

\* the links of the list in note order and list order
RECURSIVE AllLinks(_)
AllLinks(ns) ==
  IF ns = <<>> THEN <<>>
  ELSE [j \in DOMAIN ns[1].linksTo |->
          [source |-> ns[1].slug, target |-> ns[1].linksTo[j]]]
       \o AllLinks(Tail(ns))

TargetExists(e) == e.target \in InputSlugs

\* each link followed by its reverse, self-links excepted
RECURSIVE WithReverses(_)
WithReverses(es) ==
  IF es = <<>> THEN <<>>
  ELSE (IF es[1].source # es[1].target
        THEN <<es[1], [source |-> es[1].target, target |-> es[1].source]>>
        ELSE <<es[1]>>)
       \o WithReverses(Tail(es))

\* C7: with default filtering the edges are the links whose target exists,
\* in note order and list order, duplicates kept; with bidirectional each
\* is followed by its reverse, a self-link giving one edge only.
C7_EdgeOrder ==
  (Built /\ DefaultFiltering) =>
    graph.edges =
      IF options.bidirectional
      THEN WithReverses(SelectSeq(AllLinks(notes), TargetExists))
      ELSE SelectSeq(AllLinks(notes), TargetExists)

\* a bidirectional graph with a self-link and a link followed by its reverse
C7_Witness ==
  /\ Built
  /\ DefaultFiltering
  /\ options.bidirectional
  /\ \E i \in DOMAIN graph.edges : graph.edges[i].source = graph.edges[i].target
  /\ \E i \in DOMAIN graph.edges :
       /\ i + 1 \in DOMAIN graph.edges
       /\ graph.edges[i].source # graph.edges[i].target
       /\ graph.edges[i + 1].source = graph.edges[i].target
       /\ graph.edges[i + 1].target = graph.edges[i].source

\* C8: buildNoteGraph never raises, and with default options nodes has
\* exactly one key per distinct slug of the list.
C8_NeverRaises ==
  Built =>
    /\ ~raised
    /\ (options = DefaultOptions) =>
         /\ NodeKeys = InputSlugs
         /\ Range(graph.order) = InputSlugs
         /\ Len(graph.order) = Cardinality(InputSlugs)

\* a list with a duplicate slug, a self-link and a dangling link was built
C8_Witness ==
  /\ Built
  /\ ~raised
  /\ options = DefaultOptions
  /\ ~UniqueSlugs(notes)
  /\ \E s \in InputSlugs : LinksTo(s, s)
  /\ \E s \in InputSlugs, t \in Slugs \ InputSlugs : LinksTo(s, t)

----------------------------------------------------------------------------
(* Properties of findShortestPath *)

PathCall == call.op = "findShortestPath"

HasEdge(s, t) ==
  \E i \in DOMAIN graph.edges : graph.edges[i] = [source |-> s, target |-> t]

\* the slugs a directed walk of at most k edges reaches from s
RECURSIVE WithinSteps(_, _)
WithinSteps(s, k) ==
  IF k = 0 THEN {s}
  ELSE LET prev == WithinSteps(s, k - 1)
       IN  prev \cup {t \in NodeKeys : \E u \in prev : HasEdge(u, t)}

Reachable(s, t) == t \in WithinSteps(s, Cardinality(NodeKeys))

\* the least number of edges of a directed walk from s to t
Distance(s, t) ==
  CHOOSE k \in 0..Cardinality(NodeKeys) :
    /\ t \in WithinSteps(s, k)
    /\ \A j \in 0..(k - 1) : t \notin WithinSteps(s, j)

\* C9: findShortestPath(x, x) is [x] for a slug of the graph, and the
\* result is null whenever either slug is absent, also when both are the
\* same absent slug.
C9_SelfPathAndAbsent ==
  PathCall =>
    /\ (call.source = call.target /\ call.source \in NodeKeys)
          => ret = [isNull |-> FALSE, path |-> <<call.source>>]
    /\ (call.source \notin NodeKeys \/ call.target \notin NodeKeys)
          => ret.isNull

\* the self-path of a slug that a filter removed from a non-empty graph
C9_Witness ==
  /\ PathCall
  /\ call.source = call.target
  /\ call.source \in InputSlugs \ NodeKeys
  /\ NodeKeys # {}
  /\ ret.isNull

\* C10: for slugs s # t of the graph the result is null iff no directed
\* path leads from s to t; otherwise it starts with s, ends with t, follows
\* edges, repeats no slug and has the least possible number of edges.
C10_ShortestDirectedPath ==
  (PathCall /\ call.source # call.target
            /\ call.source \in NodeKeys /\ call.target \in NodeKeys) =>
    /\ ret.isNull <=> ~Reachable(call.source, call.target)
    /\ ~ret.isNull =>
         /\ ret.path[1] = call.source
         /\ ret.path[Len(ret.path)] = call.target
         /\ \A i \in 1..(Len(ret.path) - 1) : HasEdge(ret.path[i], ret.path[i + 1])
         /\ \A i, j \in DOMAIN ret.path : ret.path[i] = ret.path[j] => i = j
         /\ Len(ret.path) - 1 = Distance(call.source, call.target)

\* the direct edge is returned although a detour through a third slug exists
C10_Witness ==
  /\ PathCall
  /\ ~ret.isNull
  /\ ret.path = <<call.source, call.target>>
  /\ call.source # call.target
  /\ \E m \in NodeKeys \ {call.source, call.target} :
       HasEdge(call.source, m) /\ HasEdge(m, call.target)

\* C11: when the path exists in the graph with fewer edges it exists in the
\* full graph and is not longer there; with no edge left in a graph of two
\* or more nodes the result is null for every pair of different slugs.
C11_MonotoneUnderRemoval ==
  (call.op = "comparePaths") =>
    /\ ~ret.sub.isNull =>
         /\ ~ret.full.isNull
         /\ Len(ret.full.path) <= Len(ret.sub.path)
    /\ (call.kept = {} /\ Cardinality(NodeKeys) >= 2 /\ call.source # call.target)
         => ret.sub.isNull

\* taking the direct edge out lengthens the path
C11_Witness ==
  /\ call.op = "comparePaths"
  /\ ~ret.sub.isNull
  /\ ~ret.full.isNull
  /\ Len(ret.full.path) = 2
  /\ Len(ret.sub.path) = 3

----------------------------------------------------------------------------
(* Properties of the analysis functions *)

\* the two slugs are the ends of one edge, in either direction
Linked(s, t) == HasEdge(s, t) \/ HasEdge(t, s)

\* the nodes within k undirected steps of s
RECURSIVE UWithin(_, _)
UWithin(s, k) ==
  IF k = 0 THEN {s}
  ELSE LET prev == UWithin(s, k - 1)
       IN  prev \cup {t \in NodeKeys : \E u \in prev : Linked(u, t)}

\* the nodes joined to s by a path that ignores the direction of the edges
UComponent(s) == UWithin(s, Cardinality(NodeKeys))

UClasses == {UComponent(s) : s \in NodeKeys}

\* C12: the components returned by getConnectedComponents partition the
\* node keys, two slugs share a component iff an undirected path joins
\* them, and the components come in non-increasing order of size;
\* getGraphStatistics reports their number as componentCount and the size
\* of the first as largestComponentSize, 0 for the empty graph.
C12_Components ==
  /\ (call.op = "getConnectedComponents") =>
       /\ \A i \in DOMAIN ret :
            /\ ret[i] # <<>>
            /\ \A j, k \in DOMAIN ret[i] : j # k => ret[i][j] # ret[i][k]
            /\ \A s \in Range(ret[i]) : Range(ret[i]) = UComponent(s)
       /\ \A i, j \in DOMAIN ret : i # j => Range(ret[i]) \cap Range(ret[j]) = {}
       /\ UNION {Range(ret[i]) : i \in DOMAIN ret} = NodeKeys
       /\ \A i, j \in DOMAIN ret : i < j => Len(ret[i]) >= Len(ret[j])
  /\ (call.op = "getGraphStatistics") =>
       /\ ret.componentCount = Cardinality(UClasses)
       /\ \A c \in UClasses : Cardinality(c) <= ret.largestComponentSize
       /\ NodeKeys # {} =>
            \E c \in UClasses : Cardinality(c) = ret.largestComponentSize
       /\ NodeKeys = {} => ret.largestComponentSize = 0

\* a single node found first and a pair joined by an edge that points
\* against the order of the nodes: the pair is returned first
C12_Witness ==
  /\ call.op = "getConnectedComponents"
  /\ Len(ret) = 2
  /\ Len(ret[1]) = 2
  /\ graph.order[1] \in Range(ret[2])
  /\ HasEdge(ret[1][2], ret[1][1])
  /\ ~HasEdge(ret[1][1], ret[1][2])

\* C13: for a slug s of the graph and depth >= 1 getNeighborhood returns
\* exactly the slugs other than s within depth undirected steps of s; the
\* result never holds s and only grows with depth; it is empty when s is
\* no node of the graph or depth < 1.
C13_Neighborhood ==
  (call.op = "getNeighborhood") =>
    /\ \A i, j \in DOMAIN ret : i # j => ret[i] # ret[j]
    /\ call.slug \notin Range(ret)
    /\ (call.slug \in NodeKeys /\ call.depth >= 1) =>
         Range(ret) = UWithin(call.slug, call.depth) \ {call.slug}
    /\ (call.slug \notin NodeKeys \/ call.depth < 1) => ret = <<>>
    /\ \A d \in 0..call.depth :
         Range(getNeighborhood(call.slug, graph, d)) \subseteq Range(ret)

\* two hops against the direction of the edges reach a node that one hop
\* does not
C13_Witness ==
  /\ call.op = "getNeighborhood"
  /\ call.depth = 2
  /\ Len(ret) = 2
  /\ \E t \in Range(ret) :
       /\ ~Linked(call.slug, t)
       /\ \E u \in Range(ret) : HasEdge(t, u) /\ HasEdge(u, call.slug)

\* the nodes from which s can be reached and which s reaches
StrongClass(s) == {t \in NodeKeys : Reachable(s, t) /\ Reachable(t, s)}

StrongClasses == {StrongClass(s) : s \in NodeKeys}

\* no directed cycle through two or more nodes; self-links may be there
NoLongCycle == \A s \in NodeKeys : StrongClass(s) = {s}

\* the edges are one directed cycle through every node
SingleCycle ==
  /\ NodeKeys # {}
  /\ \A s \in NodeKeys :
       Cardinality(EdgesFrom(s)) = 1 /\ Cardinality(EdgesInto(s)) = 1
  /\ \A s, t \in NodeKeys : Reachable(s, t)

\* C14: the components found by the Tarjan pass partition the nodes, two
\* nodes share a component iff each reaches the other; the count reported
\* as graph.connectedComponents is their number: nodeCount when no
\* directed cycle runs through two or more nodes, 1 on a single directed
\* cycle through all the nodes.
C14_StrongComponents ==
  /\ (call.op = "findStronglyConnectedComponents") =>
       /\ \A i \in DOMAIN ret :
            /\ \A j, k \in DOMAIN ret[i] : j # k => ret[i][j] # ret[i][k]
            /\ \A s \in Range(ret[i]) : Range(ret[i]) = StrongClass(s)
       /\ \A i, j \in DOMAIN ret : i # j => Range(ret[i]) \cap Range(ret[j]) = {}
       /\ UNION {Range(ret[i]) : i \in DOMAIN ret} = NodeKeys
  /\ (call.op = "calculateAnalytics") =>
       /\ ret.graph.connectedComponents = Cardinality(StrongClasses)
       /\ NoLongCycle => ret.graph.connectedComponents = ret.graph.nodeCount
       /\ SingleCycle => ret.graph.connectedComponents = 1

\* a directed cycle through three nodes is one component
C14_Witness ==
  /\ call.op = "calculateAnalytics"
  /\ SingleCycle
  /\ ret.graph.nodeCount = 3
  /\ ret.graph.connectedComponents = 1

\* a graph with a self-link and no longer cycle has one component per node
C14_WitnessAcyclic ==
  /\ call.op = "calculateAnalytics"
  /\ NoLongCycle
  /\ \E s \in NodeKeys : HasEdge(s, s)
  /\ Len(graph.edges) >= 2
  /\ ret.graph.connectedComponents = 2

\* every way of cutting the members in two is crossed by an edge from the
\* first part to the second: each member reaches each other inside M
StronglyConnected(M) ==
  \A S \in (SUBSET M) \ {{}, M} :
    \E i \in DOMAIN graph.edges :
      graph.edges[i].source \in S /\ graph.edges[i].target \in M \ S

EdgesInside(M) ==
  {i \in DOMAIN graph.edges :
     graph.edges[i].source \in M /\ graph.edges[i].target \in M}

\* internalEdges / (size * (size - 1)) of a set of three or more members
DensityOf(M) ==
  [num |-> Cardinality(EdgesInside(M)),
   den |-> Cardinality(M) * (Cardinality(M) - 1)]

\* the member sets of the strongly connected components of three or more
\* members
LargeComponents ==
  LET components == findStronglyConnectedComponents(graph)
  IN  {Range(components[i]) :
         i \in {j \in DOMAIN components : Len(components[j]) >= 3}}

\* C15: the clusters are strongly connected components of three or more
\* members, each once, with density internalEdges / (size * (size - 1)),
\* in non-increasing order of density; there are at most five of them,
\* all the large components when there are five or fewer, and no large
\* component left out is denser than one returned.
C15_Clusters ==
  (call.op = "calculateAnalytics") =>
    LET clusters == ret.graph.clusters
        listed   == {Range(clusters[i].members) : i \in DOMAIN clusters}
        large    == LargeComponents
    IN  /\ \A i \in DOMAIN clusters :
             /\ Len(clusters[i].members) >= 3
             /\ Cardinality(Range(clusters[i].members)) = Len(clusters[i].members)
             /\ Range(clusters[i].members) \in large
             /\ StronglyConnected(Range(clusters[i].members))
             /\ clusters[i].density = DensityOf(Range(clusters[i].members))
        /\ \A i, j \in DOMAIN clusters :
             i < j => /\ ~Less(clusters[i].density, clusters[j].density)
                      /\ Range(clusters[i].members) # Range(clusters[j].members)
        /\ Len(clusters) <= 5
        /\ Len(clusters) = IF Cardinality(large) < 5
                           THEN Cardinality(large) ELSE 5
        /\ \A M \in large \ listed :
             \A i \in DOMAIN clusters : ~Less(clusters[i].density, DensityOf(M))

\* six large components, five returned: the sort moves a denser component
\* found later ahead of a sparser one found earlier
C15_Witness ==
  /\ call.op = "calculateAnalytics"
  /\ Cardinality(LargeComponents) = 6
  /\ Len(ret.graph.clusters) = 5
  /\ ret.graph.clusters[4].id > ret.graph.clusters[5].id
  /\ Less(ret.graph.clusters[5].density, ret.graph.clusters[4].density)
  /\ Same(ret.graph.clusters[1].density, FromInt(1))

\* C16: calculateCentrality has one score per node key; with two or more
\* nodes the score is min(linkCount / (nodeCount - 1), 1), lies in [0, 1]
\* and is 1 exactly when linkCount >= nodeCount - 1; with one node or none
\* every score is 0, also for a single node linking to itself.
C16_Centrality ==
  (call.op = "calculateCentrality") =>
    LET n == Cardinality(NodeKeys)
    IN  /\ DOMAIN ret.score = NodeKeys
        /\ Range(ret.order) = NodeKeys
        /\ \A s \in NodeKeys :
             LET v  == ret.score[s]
                 lc == graph.nodes[s].linkCount
             IN  /\ v.den > 0
                 /\ 0 <= v.num /\ v.num <= v.den
                 /\ n >= 2 =>
                      /\ (v.num = v.den) <=> (lc >= n - 1)
                      /\ lc < n - 1 => v.num * (n - 1) = lc * v.den
                 /\ n <= 1 => v.num = 0

\* one node is linked more often than there are other nodes and is capped
\* at 1, another lies strictly between 0 and 1
C16_Witness ==
  /\ call.op = "calculateCentrality"
  /\ Cardinality(NodeKeys) = 3
  /\ \E s \in NodeKeys :
       /\ graph.nodes[s].linkCount > 2
       /\ ret.score[s].num = ret.score[s].den
  /\ \E t \in NodeKeys :
       /\ 0 < ret.score[t].num
       /\ ret.score[t].num < ret.score[t].den

\* a single node that links to itself scores 0
C16_WitnessSelfLink ==
  /\ call.op = "calculateCentrality"
  /\ Cardinality(NodeKeys) = 1
  /\ \E s \in NodeKeys : graph.nodes[s].linkCount = 2 /\ ret.score[s] = Zero

RECURSIVE SumOver(_, _)
SumOver(S, f) ==
  IF S = {} THEN 0
  ELSE LET x == CHOOSE y \in S : TRUE
       IN  f[x] + SumOver(S \ {x}, f)

\* the sum of linkCount over the nodes
LinkCountSum == SumOver(NodeKeys, [s \in NodeKeys |-> graph.nodes[s].linkCount])

\* The double product q * q.den is q.num again.  The exact product is off
\* by RoundingError(q) * 2^(-s); it rounds to q.num iff that is at most
\* half the distance to the neighbouring double, which below a power of
\* two is half as wide.
RoundTrips(q) ==
  \/ q.num = 0
  \/ LET d == RoundingError(q)
         w == BitLength(q.num) - 1 - Exponent(q.num, q.den)
         magnitude == IF d < 0 THEN 0 - d ELSE d
     IN  IF d >= 0 \/ q.num # Pow2(BitLength(q.num) - 1)
         THEN 2 * magnitude <= Pow2(w)
         ELSE 4 * magnitude <= Pow2(w)

StatsCall == call.op = "getGraphStatistics" /\ ~options.bidirectional

ReportedDensity ==
  IF call.op = "getGraphStatistics" THEN ret.density ELSE ret.graph.density

\* C18: getGraphStatistics and calculateAnalytics report density 0 for a
\* graph of at most one node, also for a single node linking to itself,
\* and edgeCount / (nodeCount * (nodeCount - 1)) otherwise; the divisor is
\* never 0.
C18_Density ==
  (call.op \in {"getGraphStatistics", "calculateAnalytics"}) =>
    LET n == Cardinality(NodeKeys)
    IN  /\ ReportedDensity.den # 0
        /\ n <= 1 => ReportedDensity = Zero
        /\ n >= 2 => ReportedDensity = [num |-> Len(graph.edges),
                                        den |-> n * (n - 1)]

\* the statistics of a single node that links to itself
C18_Witness ==
  /\ call.op = "getGraphStatistics"
  /\ Cardinality(NodeKeys) = 1
  /\ ret.edgeCount = 1
  /\ \E s \in NodeKeys : HasEdge(s, s)
  /\ ret.density = Zero

\* the analytics of a single node that links to itself
C18_WitnessAnalytics ==
  /\ call.op = "calculateAnalytics"
  /\ Cardinality(NodeKeys) = 1
  /\ ret.graph.edgeCount = 1
  /\ ret.graph.density = Zero

\* the analytics of three nodes and three edges report 3 / 6
C18_WitnessDense ==
  /\ call.op = "calculateAnalytics"
  /\ ret.graph.nodeCount = 3
  /\ ret.graph.density = [num |-> 3, den |-> 6]

\* the position of a node key in the insertion order of graph.nodes
PositionOf(s) == CHOOSE i \in DOMAIN graph.order : graph.order[i] = s

\* the count a ranking call sorts by, of the node of key s
RankedCount(s) ==
  CASE call.op = "findMostLinkedNotes" -> graph.nodes[s].linkCount
    [] call.op \in {"findMostReferencedNotes", "findAuthorities"} ->
         graph.nodes[s].backlinkCount
    [] call.op = "findHubs" -> graph.nodes[s].forwardLinkCount

\* the entries are nodes of the graph with their counts, each at most once
ReturnsNodes ==
  /\ \A i \in DOMAIN ret :
       /\ ret[i].id \in NodeKeys
       /\ ret[i].linkCount = graph.nodes[ret[i].id].linkCount
       /\ ret[i].backlinkCount = graph.nodes[ret[i].id].backlinkCount
       /\ ret[i].forwardLinkCount = graph.nodes[ret[i].id].forwardLinkCount
  /\ \A i, j \in DOMAIN ret : i # j => ret[i].id # ret[j].id

Returned == {ret[i].id : i \in DOMAIN ret}

\* C19: for a limit >= 0 findMostLinkedNotes returns exactly
\* min(limit, nodeCount) nodes in non-increasing order of linkCount, no
\* node left out has a larger linkCount than a returned one, and nodes of
\* equal linkCount keep the insertion order of the nodes;
\* findMostReferencedNotes does the same with backlinkCount.
C19_MostLinked ==
  (call.op \in {"findMostLinkedNotes", "findMostReferencedNotes"}) =>
    /\ ReturnsNodes
    /\ Len(ret) = IF call.limit < Cardinality(NodeKeys)
                  THEN call.limit ELSE Cardinality(NodeKeys)
    /\ \A i, j \in DOMAIN ret :
         i < j =>
           /\ RankedCount(ret[i].id) >= RankedCount(ret[j].id)
           /\ RankedCount(ret[i].id) = RankedCount(ret[j].id)
                => PositionOf(ret[i].id) < PositionOf(ret[j].id)
    /\ \A s \in NodeKeys \ Returned :
         \A i \in DOMAIN ret : RankedCount(s) <= RankedCount(ret[i].id)

\* two of three nodes are returned: the most linked node, inserted last,
\* comes first, and of the two others of equal linkCount the one inserted
\* first is kept
C19_Witness ==
  /\ call.op = "findMostLinkedNotes"
  /\ call.limit = 2
  /\ Cardinality(NodeKeys) = 3
  /\ Len(ret) = 2
  /\ ret[1].id = graph.order[3]
  /\ ret[2].id = graph.order[1]
  /\ graph.nodes[graph.order[1]].linkCount = graph.nodes[graph.order[2]].linkCount
  /\ ret[1].linkCount > ret[2].linkCount
  /\ ret[1].backlinkCount < ret[2].backlinkCount

\* the same for findMostReferencedNotes
C19_WitnessReferenced ==
  /\ call.op = "findMostReferencedNotes"
  /\ call.limit = 2
  /\ Cardinality(NodeKeys) = 3
  /\ Len(ret) = 2
  /\ ret[1].id = graph.order[3]
  /\ ret[2].id = graph.order[1]
  /\ graph.nodes[graph.order[1]].backlinkCount
       = graph.nodes[graph.order[2]].backlinkCount

\* C20: findHubs returns every node whose forwardLinkCount is at least the
\* threshold and no other node, in non-increasing order of
\* forwardLinkCount, however many there are; findAuthorities does the same
\* with backlinkCount.
C20_HubsAndAuthorities ==
  (call.op \in {"findHubs", "findAuthorities"}) =>
    /\ ReturnsNodes
    /\ Returned = {s \in NodeKeys : RankedCount(s) >= call.threshold}
    /\ \A i, j \in DOMAIN ret :
         i < j => RankedCount(ret[i].id) >= RankedCount(ret[j].id)

\* two hubs, the one with more outgoing links inserted later, and a node
\* with exactly one link less than the threshold left out
C20_Witness ==
  /\ call.op = "findHubs"
  /\ call.threshold = 1
  /\ Cardinality(NodeKeys) = 3
  /\ Len(ret) = 2
  /\ PositionOf(ret[1].id) > PositionOf(ret[2].id)
  /\ ret[1].forwardLinkCount = 2
  /\ ret[2].forwardLinkCount = 1

\* a node whose count equals the threshold is an authority
C20_WitnessAuthorities ==
  /\ call.op = "findAuthorities"
  /\ call.threshold = 2
  /\ Len(ret) = 1
  /\ ret[1].backlinkCount = 2

\* the ids of a leaderboard
BoardIds(board) == {board[i].id : i \in DOMAIN board}

\* the leaderboard lists min(10, nodeCount) different nodes, each with the
\* count of the node as its score, in non-increasing order of score, and
\* no node it leaves out has a larger count than a node it lists
BoardOf(board, count) ==
  /\ Len(board) = IF Cardinality(NodeKeys) < 10 THEN Cardinality(NodeKeys) ELSE 10
  /\ \A i \in DOMAIN board :
       /\ board[i].id \in NodeKeys
       /\ board[i].score = count[board[i].id]
  /\ \A i, j \in DOMAIN board : i # j => board[i].id # board[j].id
  /\ \A i, j \in DOMAIN board : i < j => board[i].score >= board[j].score
  /\ \A s \in NodeKeys \ BoardIds(board) :
       \A i \in DOMAIN board : count[s] <= board[i].score

\* C21: the leaderboards highest, hubs and authorities of calculateAnalytics
\* each hold min(10, nodeCount) entries whose score is the raw linkCount,
\* forwardLinkCount and backlinkCount of the node, in non-increasing order
\* of score, and no node left out has a larger score than a listed one.
C21_Leaderboards ==
  (call.op = "calculateAnalytics") =>
    /\ BoardOf(ret.graph.centrality.highest,
               [s \in NodeKeys |-> graph.nodes[s].linkCount])
    /\ BoardOf(ret.graph.centrality.hubs,
               [s \in NodeKeys |-> graph.nodes[s].forwardLinkCount])
    /\ BoardOf(ret.graph.centrality.authorities,
               [s \in NodeKeys |-> graph.nodes[s].backlinkCount])

\* eleven nodes: each leaderboard lists ten, the hub with ten links comes
\* first with its raw count, and the node left out of the authorities has
\* a smaller count than the first one listed
C21_Witness ==
  /\ call.op = "calculateAnalytics"
  /\ Cardinality(NodeKeys) = 11
  /\ Len(ret.graph.centrality.highest) = 10
  /\ ret.graph.centrality.hubs[1].score = 10
  /\ ret.graph.centrality.hubs[2].score = 1
  /\ \E s \in NodeKeys \ BoardIds(ret.graph.centrality.authorities) :
       graph.nodes[s].backlinkCount < ret.graph.centrality.authorities[1].score

\* C22: calculateAnalytics on the empty note list and the empty graph
\* raises nothing and returns zeroed and empty results throughout: every
\* count, average, density, rate, minimum, maximum and median is 0, every
\* leaderboard, cluster list, tag list and distribution is empty.
C22_EmptyAnalytics ==
  (call.op = "calculateAnalytics" /\ notes = <<>>) =>
    /\ ~raised
    /\ NodeKeys = {} /\ graph.edges = <<>> /\ graph.orphans = {}
    /\ ret.basic = [totalNotes |-> 0, totalLinks |-> 0, orphanedNotes |-> 0,
                    averageConnections |-> Zero, totalWords |-> 0,
                    averageWordsPerNote |-> Zero, buildTime |-> 0]
    /\ ret.graph.nodeCount = 0
    /\ ret.graph.edgeCount = 0
    /\ ret.graph.orphanCount = 0
    /\ ret.graph.connectedComponents = 0
    /\ ret.graph.averageDegree = Zero
    /\ ret.graph.density = Zero
    /\ ret.graph.centrality.highest = <<>>
    /\ ret.graph.centrality.hubs = <<>>
    /\ ret.graph.centrality.authorities = <<>>
    /\ ret.graph.clusters = <<>>
    /\ ret.content.wordDistribution =
         [min |-> 0, max |-> 0, average |-> Zero, median |-> Zero]
    /\ ret.content.readingTimeDistribution =
         [min |-> 0, max |-> 0, average |-> Zero]
    /\ ret.content.linkDensity.average = Zero
    /\ DOMAIN ret.content.linkDensity.distribution = {}
    /\ ret.content.orphanageRate = Zero
    /\ ret.tags.totalTags = 0
    /\ ret.tags.averageTagsPerNote = Zero
    /\ ret.tags.topTags = <<>>
    /\ DOMAIN ret.tags.tagDistribution = {}
    /\ ret.tags.relatedTags = <<>>

\* the analytics of the empty note list and its graph
C22_Witness ==
  /\ call.op = "calculateAnalytics"
  /\ notes = <<>>
  /\ NodeKeys = {}
  /\ ret.basic.totalNotes = 0
  /\ ret.content.wordDistribution.median = Zero
  /\ ret.tags.topTags = <<>>

\* the analytics of two notes of 1 and 3 words that share two tags: the
\* median is (1 + 3) / 2 and the pair of tags is reported once
C22_WitnessNotEmpty ==
  /\ call.op = "calculateAnalytics"
  /\ Len(notes) = 2
  /\ ret.basic.totalWords = 4
  /\ ret.content.wordDistribution.median = [num |-> 4, den |-> 2]
  /\ Len(ret.tags.topTags) = 2
  /\ ret.tags.topTags[1].count = 2
  /\ ret.tags.relatedTags = <<[tag1 |-> "x", tag2 |-> "y", cooccurrence |-> 2]>>

----------------------------------------------------------------------------
(* C24 *)

\* the graph as buildNoteGraph returns it for the notes and the options
FreshGraph == buildNoteGraph(notes, options).graph

----------------------------------------------------------------------------
(* C25 *)

\* what the call of a traversal returns, by the functions of the model
TraversalResult ==
  CASE call.op = "findShortestPath" ->
         findShortestPath(call.source, call.target, graph)
    [] call.op = "getConnectedComponents" -> getConnectedComponents(graph)
    [] call.op = "findStronglyConnectedComponents" ->
         findStronglyConnectedComponents(graph)
    [] call.op = "getNeighborhood" ->
         getNeighborhood(call.slug, graph, call.depth)

\* the counts of the traversal that runs or has returned
TraversalCounts ==
  pc \in {"running", "queried"} =>
    /\ call.op = "findShortestPath" =>
         \A s \in Slugs : Occurrences(ret.enqueued, s) <= 1
    /\ call.op \in {"getConnectedComponents",
                    "findStronglyConnectedComponents"} =>
         /\ \A s \in Slugs : Occurrences(ret.entered, s) <= 1
         /\ pc = "queried" =>
              \A s \in NodeKeys : Occurrences(ret.entered, s) = 1
    /\ call.op = "getNeighborhood" =>
         /\ ret.rounds <= call.depth
         /\ pc = "queried" =>
              ret.rounds = IF call.slug \in NodeKeys THEN call.depth ELSE 0
    /\ pc = "queried" => ret.result = TraversalResult

\* C25: every traversal terminates on every built graph, with cycles,
\* self-links and duplicate edges: a call that runs returns.  The search
\* of findShortestPath puts each slug into its queue at most once, dfs of
\* getConnectedComponents and visit of the strongly connected components
\* are entered exactly once for each node, and getNeighborhood makes
\* exactly depth rounds.
C25_TraversalsTerminate ==
  /\ []TraversalCounts
  /\ (pc = "running") ~> (pc = "queried")

\* the strongly connected components of a graph with a cycle, a self-link
\* and a duplicate edge have been found
C25_Witness ==
  /\ pc = "queried"
  /\ call.op = "findStronglyConnectedComponents"
  /\ Len(ret.entered) = 2
  /\ \E s \in NodeKeys, t \in NodeKeys :
       s # t /\ HasEdge(s, t) /\ HasEdge(t, s)
  /\ \E i \in DOMAIN graph.edges, j \in DOMAIN graph.edges :
       i # j /\ graph.edges[i] = graph.edges[j]

\* a search from a note with a self-link has run through three notes and
\* found no path
C25_WitnessSelfLink ==
  /\ pc = "queried"
  /\ call.op = "findShortestPath"
  /\ HasEdge(call.source, call.source)
  /\ Len(ret.enqueued) = 2
  /\ ret.result = Null

\* getNeighborhood has made two rounds on a cycle
C25_WitnessRounds ==
  /\ pc = "queried"
  /\ call.op = "getNeighborhood"
  /\ ret.rounds = 2
  /\ \E t \in NodeKeys :
       t # call.slug /\ HasEdge(call.slug, t) /\ HasEdge(t, call.slug)

----------------------------------------------------------------------------
(* C26 *)

\* the number of edges from s to t
EdgeCount(s, t) ==
  Cardinality({i \in DOMAIN graph.edges :
                 graph.edges[i] = [source |-> s, target |-> t]})

\* C26: a graph built with bidirectional = true, from any note list and
\* under any filtering options, has as many edges from s to t as from t to
\* s; every node then has forwardLinkCount = backlinkCount, and s is a
\* backlink of t exactly when t is a backlink of s.
C26_BidirectionalSymmetric ==
  (Built /\ ~raised /\ options.bidirectional) =>
    /\ \A s \in Slugs, t \in Slugs : EdgeCount(s, t) = EdgeCount(t, s)
    /\ \A n \in NodeKeys :
         graph.nodes[n].forwardLinkCount = graph.nodes[n].backlinkCount
    /\ \A s \in NodeKeys, t \in NodeKeys :
         s \in Range(graph.backlinks[t]) <=> t \in Range(graph.backlinks[s])

\* a note lists another note twice and is not linked back: each of the
\* two edges has its reverse
C26_Witness ==
  /\ Built /\ ~raised /\ options.bidirectional
  /\ \E s \in NodeKeys, t \in NodeKeys :
       /\ s # t
       /\ LinksTo(s, t) /\ ~LinksTo(t, s)
       /\ EdgeCount(s, t) = 2 /\ EdgeCount(t, s) = 2
       /\ graph.nodes[t].forwardLinkCount = 2

\* filtering removed a note of a bidirectional graph and the edges that
\* remain are symmetric
C26_WitnessFiltered ==
  /\ Built /\ ~raised /\ options.bidirectional
  /\ NodeKeys # InputSlugs
  /\ \E s \in NodeKeys, t \in NodeKeys : s # t /\ EdgeCount(s, t) = 1

----------------------------------------------------------------------------
(* C27 *)

\* no note lists the same target twice
NoRepeatedTarget ==
  \A i \in DOMAIN notes :
    \A j \in DOMAIN notes[i].linksTo, k \in DOMAIN notes[i].linksTo :
      notes[i].linksTo[j] = notes[i].linksTo[k] => j = k

\* C27: for every node n of a built graph backlinkCount(n) is at least the
\* number of slugs getBacklinks(n) returns, and equal to it when the slugs
\* are unique, bidirectional is false and no note lists a target twice;
\* forwardLinkCount(n) is the length of getConnections(n).forward.
C27_CountsAndLists ==
  (pc = "queried" /\ call.slug \in NodeKeys) =>
    LET node == graph.nodes[call.slug]
        backward == IF call.op = "getBacklinks" THEN ret ELSE ret.backward
    IN  /\ node.backlinkCount >= Len(backward)
        /\ (UniqueSlugs(notes) /\ ~options.bidirectional /\ NoRepeatedTarget)
             => node.backlinkCount = Len(backward)
        /\ Range(backward) =
             {graph.edges[i].source : i \in EdgesInto(call.slug)}
        /\ call.op = "getConnections" =>
             node.forwardLinkCount = Len(ret.forward)

\* a note is listed twice by one note: two backlinks counted, one slug
\* returned
C27_Witness ==
  /\ pc = "queried"
  /\ call.op = "getBacklinks"
  /\ call.slug \in NodeKeys
  /\ graph.nodes[call.slug].backlinkCount = 2
  /\ Len(ret) = 1

\* two notes link once to a third: the count and the list agree at two
C27_WitnessEqual ==
  /\ pc = "queried"
  /\ call.op = "getBacklinks"
  /\ UniqueSlugs(notes) /\ ~options.bidirectional /\ NoRepeatedTarget
  /\ Len(ret) = 2

\* the forward links of a note with two edges, one of them to itself
C27_WitnessForward ==
  /\ pc = "queried"
  /\ call.op = "getConnections"
  /\ Len(ret.forward) = 2
  /\ call.slug \in Range(ret.forward)
  /\ Len(graph.edges) > 2

----------------------------------------------------------------------------
(* C28 *)

\* C28: the count of strongly connected components that calculateAnalytics
\* reports (graph.connectedComponents) is at least the componentCount of
\* getGraphStatistics, and the members of one strongly connected component
\* all lie in one component of getConnectedComponents.
C28_StrongRefinesWeak ==
  (pc = "queried" /\ call.op = "compareComponents") =>
    /\ ret.analytics.graph.connectedComponents >= ret.statistics.componentCount
    /\ ret.analytics.graph.connectedComponents = Len(ret.strong)
    /\ ret.statistics.componentCount = Len(ret.components)
    /\ \A i \in DOMAIN ret.strong :
         \E j \in DOMAIN ret.components :
           Range(ret.strong[i]) \subseteq Range(ret.components[j])

\* three notes on a directed path with a two-cycle at its end: two
\* strongly connected components inside one component
C28_Witness ==
  /\ pc = "queried"
  /\ call.op = "compareComponents"
  /\ ret.analytics.graph.connectedComponents = 2
  /\ ret.statistics.componentCount = 1
  /\ \E i \in DOMAIN ret.strong : Len(ret.strong[i]) = 2

----------------------------------------------------------------------------
(* C29 *)

\* C29: for a slug s of the graph and a depth of at least
\* max(1, nodeCount - 1), getNeighborhood(s, graph, depth) together with s
\* is the component of getConnectedComponents(graph) that contains s.
C29_NeighborhoodIsComponent ==
  (/\ pc = "queried"
   /\ call.op = "compareNeighborhood"
   /\ call.slug \in NodeKeys
   /\ call.depth >= 1
   /\ call.depth >= Cardinality(NodeKeys) - 1) =>
    \E j \in DOMAIN ret.components :
      /\ call.slug \in Range(ret.components[j])
      /\ Range(ret.neighborhood) \cup {call.slug} = Range(ret.components[j])

\* from the end of a path of three notes, against the direction of its
\* links, the second round is needed to reach the whole component
C29_Witness ==
  /\ pc = "queried"
  /\ call.op = "compareNeighborhood"
  /\ call.depth = 2
  /\ Cardinality(NodeKeys) = 3
  /\ Len(ret.neighborhood) = 2
  /\ EdgesFrom(call.slug) = {}
  /\ Cardinality({t \in NodeKeys : HasEdge(t, call.slug)}) = 1

\* a note in a component of its own, among other notes
C29_WitnessAlone ==
  /\ pc = "queried"
  /\ call.op = "compareNeighborhood"
  /\ call.slug \in NodeKeys
  /\ call.depth = 2
  /\ ret.neighborhood = <<>>
  /\ Len(ret.components) = 2

----------------------------------------------------------------------------
(* C30 *)

\* the slugs findShortestPath reaches from start on the built graph by a
\* path of at most maxDepth edges
WithinPath(start, maxDepth) ==
  {t \in Slugs :
     LET p == findShortestPath(start, t, graph)
     IN  /\ p # Null
         /\ ~DeeperThan(Len(p.path) - 1, maxDepth)}

\* the result of getReachableNotes and the paths of findShortestPath on
\* buildNoteGraph(notes) agree
ReachableIsWithinPath ==
  (pc = "queried" /\ call.op = "getReachableNotes") =>
    /\ Range(ret.result) = WithinPath(call.start, call.maxDepth)
    /\ call.start \in InputSlugs => call.start \in Range(ret.result)
    /\ call.start \notin InputSlugs => ret.result = <<>>
    /\ \A i \in DOMAIN ret.result, j \in DOMAIN ret.result :
         ret.result[i] = ret.result[j] => i = j

\* C30: for notes with unique slugs, a start slug among them and a
\* maxDepth d >= 0 or unlimited, getReachableNotes(start, notes, d) is the
\* set of slugs t to which findShortestPath(start, t, buildNoteGraph(notes))
\* finds a path of at most d edges.  It contains start, it is empty when
\* start is the slug of no note, and the call returns on notes that link
\* in a cycle.
C30_ReachableNotes ==
  /\ []ReachableIsWithinPath
  /\ (pc = "running") ~> (pc = "queried")

\* on a path of three notes with a link back to the start, one link deep:
\* the third note is reachable but left out
C30_Witness ==
  /\ pc = "queried"
  /\ call.op = "getReachableNotes"
  /\ call.maxDepth = [finite |-> TRUE, value |-> 1]
  /\ Len(ret.result) = 2
  /\ Cardinality(WithinPath(call.start, Unlimited)) = 3
  /\ \E t \in NodeKeys : t # call.start /\ HasEdge(t, call.start)

\* without a limit the whole cycle is returned
C30_WitnessUnlimited ==
  /\ pc = "queried"
  /\ call.op = "getReachableNotes"
  /\ call.maxDepth = Unlimited
  /\ Len(ret.result) = 3
  /\ \A t \in NodeKeys : Reachable(t, call.start)

====
